---- MODULE Spec2Model ----
(***************************************************************************)
(* Inventory reservation ledger of robothon-reserve-scan.                  *)
(*                                                                         *)
(* The model covers the checkout-item edge function (the bulk version of   *)
(* supabase/functions/checkout-item/index.ts), the stored procedure        *)
(* transaction_decrement_and_track it calls once per unit, the admin pages *)
(* (tracking rows, parts, categories, users), the user-management edge     *)
(* functions, the login form, and the CategoryProducts page of a team.     *)
(*                                                                         *)
(* A handler is a sequence of awaited calls of the store; one action is    *)
(* one such call together with the code that runs up to the next one.      *)
(***************************************************************************)
EXTENDS Integers, Sequences, FiniteSets, TLC

(***************************************************************************)
(* Bounds of the model.                                                    *)
(***************************************************************************)
NumReqs == 2        \* concurrent checkout requests
MaxStock == 2       \* largest initial quantity of a part in Spec
MaxUnits == 2       \* largest quantity of a line item in Spec
MaxItems == 2       \* longest items array in SpecBatch
MaxUpdates == 2     \* admin status updates in SpecLifecycle
MaxManual == 1      \* admin manual ledger entries in SpecLifecycle
NumCalls == 3       \* invocations of the user-management functions
MaxScans == 1       \* barcode scans of the admin inventory page
MaxSends == 2       \* checkouts sent from the CategoryProducts page
MaxLoads == 1       \* realtime loads of the page in flight at a time
MaxNewParts == 1    \* rows the admin pages add to table parts
MaxNewCats == 1     \* rows the admin pages add to table categories
MaxEdits == 1       \* edits of a part, a category or a profile in a run
MaxLogins == 1      \* submissions of the login form
MaxLines == 2       \* lines of an imported CSV file

(***************************************************************************)
(* Program constants.                                                      *)
(***************************************************************************)
DefaultCheckoutLimit == 10

NULL == "NULL"

(***************************************************************************)
(* The seeded rows of the database.                                        *)
(***************************************************************************)
\* ids of the seeded rows of table parts
Parts == {1, 2}

\* ids of the seeded rows of table categories
Categories == {1, 2}

\* rows of auth.users of the seeded database; "u0" has no row in profiles
AuthUsers == {"u0", "u1", "u2", "ua"}

\* the five values allowed by inventory_tracking_status_check
Statuses == {"reserved", "issued", "returned", "lost", "damaged"}

VARIABLES
    quantity,   \* parts.quantity, by part id
    partRows,   \* parts.category_id and parts.barcode, by part id
    serial,     \* the sequences behind parts.id and categories.id
    ledger,     \* rows of inventory_tracking, in insertion order
    profiles,   \* rows of profiles, by profile id
    req,        \* the in-flight invocations of the checkout-item function
    stocked,    \* the units the admin pages have put into each part
    nUpdates,   \* number of admin status updates issued so far
    lastUpdate, \* the latest status update: its arguments and its outcome
    nManual,    \* number of manual ledger entries submitted so far
    nEdits,     \* number of edit forms of the admin pages submitted so far
    auth,       \* rows of auth.users, by user id
    categories, \* name and checkout_limit of table categories, by id
    fn,         \* the invocations of the user-management edge functions
    ui,         \* the latest write of an admin page and its toast
    scan,       \* the barcode scan of the admin inventory page in flight
    page,       \* state of the CategoryProducts page of one team user
    login       \* the submission of the login form in flight

vars == <<quantity, partRows, serial, ledger, profiles, req, stocked,
          nUpdates, lastUpdate, nManual, nEdits, auth, categories, fn, ui,
          scan, page, login>>

\* parts.category_id
CategoryOf(p) == partRows[p].category_id

\* categories.checkout_limit
CheckoutLimit(c) == categories[c].checkout_limit

Reqs == 1 .. NumReqs

(***************************************************************************)
(* Helpers.                                                                *)
(***************************************************************************)
RECURSIVE SumSeq(_)
SumSeq(s) == IF s = <<>> THEN 0 ELSE Head(s) + SumSeq(Tail(s))

SeqsUpTo(S, n) == UNION {[1 .. m -> S] : m \in 0 .. n}

\* String.prototype.includes on an error message, messages being kept as
\* the sequence of their words
Includes(message, word) == \E n \in 1 .. Len(message) : message[n] = word

(***************************************************************************)
(* The store: transaction_decrement_and_track.                             *)
(*                                                                         *)
(* The migrations define the procedure three times ('checked_out',         *)
(* 'issued', 'reserved'); the model takes the last one, which inserts      *)
(* 'reserved' and goes with the five-value status check.  All three have   *)
(* the same shape: a guarded UPDATE followed by an unconditional INSERT,   *)
(* and no constraint on parts.quantity exists.                             *)
(***************************************************************************)
NoError == [code |-> "", message |-> <<>>]

\* Postgres foreign_key_violation raised by a write on a table
FkErrorOn(table, constraint) ==
    [code |-> "23503",
     message |-> <<"insert", "or", "update", "on", "table", table,
                   "violates", "foreign", "key", "constraint", constraint>>]

\* UPDATE parts SET quantity = quantity - 1 WHERE id = p_part_id
\* without the stock guard
UpdatePartsUnguarded(q, p_part_id) ==
    [p \in DOMAIN q |-> IF p = p_part_id THEN q[p] - 1 ELSE q[p]]

\* UPDATE parts SET quantity = quantity - 1
\* WHERE id = p_part_id AND quantity > 0
UpdateParts(q, p_part_id) ==
    [p \in DOMAIN q |->
        IF p = p_part_id /\ q[p] > 0 THEN q[p] - 1 ELSE q[p]]

\* now(): rows are stamped in the order their transactions commit, so the
\* time of an insert is written as the position the new row takes
Now(l) == Len(l) + 1

\* the INSERT of the earlier version of the procedure, with status 'issued'
InsertTrackingIssued(l, p_part_id, p_team_profile_id) ==
    Append(l, [part_id |-> p_part_id,
               team_user_id |-> p_team_profile_id,
               status |-> "issued",
               scanned_at |-> Now(l),
               notes |-> NULL,
               admin_remarks |-> NULL])

\* the INSERT made idempotent: no second row for the same part and profile
InsertTrackingDedup(l, p_part_id, p_team_profile_id) ==
    IF \E n \in 1 .. Len(l) :
          l[n].part_id = p_part_id /\ l[n].team_user_id = p_team_profile_id
    THEN l
    ELSE Append(l, [part_id |-> p_part_id,
                    team_user_id |-> p_team_profile_id,
                    status |-> "reserved",
                    scanned_at |-> Now(l),
                    notes |-> NULL,
                    admin_remarks |-> NULL])

\* INSERT INTO inventory_tracking (part_id, team_user_id, status, scanned_at)
\* VALUES (p_part_id, p_team_profile_id, 'reserved', now())
InsertTracking(l, p_part_id, p_team_profile_id) ==
    Append(l, [part_id |-> p_part_id,
               team_user_id |-> p_team_profile_id,
               status |-> "reserved",
               scanned_at |-> Now(l),
               notes |-> NULL,
               admin_remarks |-> NULL])

\* the foreign keys of inventory_tracking, checked by the INSERT
InsertError(q, profs, p_part_id, p_team_profile_id) ==
    IF p_part_id \notin DOMAIN q
    THEN FkErrorOn("inventory_tracking", "inventory_tracking_part_id_fkey")
    ELSE IF p_team_profile_id \notin DOMAIN profs
    THEN FkErrorOn("inventory_tracking",
                   "inventory_tracking_team_user_id_fkey")
    ELSE NoError

\* One call of the procedure: both statements run in one transaction; an
\* error of the INSERT rolls the UPDATE back.
TransactionDecrementAndTrack(q, l, profs, p_part_id, p_team_profile_id) ==
    LET error == InsertError(q, profs, p_part_id, p_team_profile_id)
    IN  IF error = NoError
        THEN [quantity |-> UpdateParts(q, p_part_id),
              ledger |-> InsertTracking(l, p_part_id, p_team_profile_id),
              error |-> NoError]
        ELSE [quantity |-> q, ledger |-> l, error |-> error]

(***************************************************************************)
(* The checkout-item edge function.                                        *)
(***************************************************************************)
\* adminClient.auth.getUser(jwt): a token is written as the id of the user
\* it authenticates; any other non-empty token, and the token of a user
\* that no longer exists, is invalid
AuthGetUser(jwt) == IF jwt \in DOMAIN auth THEN jwt ELSE NULL

\* the profile lookup without its filter having to match: some row comes back
ProfileOfUserLax(profs, user_id) ==
    IF \E id \in DOMAIN profs : profs[id].user_id = user_id
    THEN CHOOSE id \in DOMAIN profs : profs[id].user_id = user_id
    ELSE CHOOSE id \in DOMAIN profs : TRUE

\* profiles ... .eq("user_id", id).maybeSingle()
ProfileOfUser(profs, user_id) ==
    IF \E id \in DOMAIN profs : profs[id].user_id = user_id
    THEN CHOOSE id \in DOMAIN profs : profs[id].user_id = user_id
    ELSE NULL

\* a request body that is no JSON text is written as a record with the one
\* field raw; req.json() throws on it a SyntaxError, whose message is
\* written "Unexpected token"
Malformed(body) == "raw" \in DOMAIN body

\* body.items || [{ part_id: Number(body.part_id), quantity: 1 }]
ItemsOf(body) ==
    IF "items" \in DOMAIN body
    THEN body.items
    ELSE <<[part_id |-> body.part_id, quantity |-> 1]>>

\* Number(item.quantity) || 1; an item may lack the quantity field
NumberOr1(item) ==
    IF "quantity" \in DOMAIN item
    THEN IF item.quantity = 0 THEN 1 ELSE item.quantity
    ELSE 1

\* items.reduce((sum, item) => sum + (Number(item.quantity) || 1), 0)
TotalItems(items) == SumSeq([n \in 1 .. Len(items) |-> NumberOr1(items[n])])

\* a response with a JSON body; success is the flag of the body
Response(status, error, items_count) ==
    [status |-> status, success |-> (status = 200), error |-> error,
     items_count |-> items_count]

NoResponse == Response(0, NULL, 0)

\* new Response(null, { headers: corsHeaders }): status 200 and no body
Preflight ==
    [status |-> 200, success |-> FALSE, error |-> NULL, items_count |-> 0]

IdleReq ==
    [pc |-> "idle", method |-> NULL, jwt |-> NULL, body |-> <<>>,
     prof |-> NULL, items |-> <<>>, k |-> 0, i |-> 0,
     resp |-> NoResponse, calls |-> 0, dec |-> 0, ins |-> 0]

Respond(r, response) ==
    req' = [req EXCEPT ![r].pc = "done", ![r].resp = response]

\* the response to a request that has just come in
RespondTo(r, method, jwt, body, response) ==
    req' = [req EXCEPT ![r].pc = "done", ![r].method = method,
                       ![r].jwt = jwt, ![r].body = body,
                       ![r].resp = response]

\* the function has not been invoked yet
Idle(r) == req[r].pc = "idle"

\* Lines 85-100: the method, the token, and auth.getUser, the first awaited
\* call.
Receive(r, method, jwt, body) ==
    /\ Idle(r)
    /\ IF method = "OPTIONS"
       THEN RespondTo(r, method, jwt, body, Preflight)
       ELSE IF method # "POST"
       THEN RespondTo(r, method, jwt, body,
                      Response(405, "Method Not Allowed", 0))
       ELSE IF jwt = ""
       THEN RespondTo(r, method, jwt, body,
                      Response(401, "Missing Authorization", 0))
       ELSE IF AuthGetUser(jwt) = NULL
       THEN RespondTo(r, method, jwt, body, Response(401, "Invalid token", 0))
       ELSE req' = [req EXCEPT ![r].pc = "profile", ![r].method = method,
                               ![r].jwt = jwt, ![r].body = body]
    /\ UNCHANGED <<quantity, partRows, serial, ledger, profiles, stocked,
                   nUpdates, lastUpdate, nManual, nEdits, auth, categories,
                   fn, ui, scan, page, login>>

\* Lines 102-115 and 177-183: the select of the caller's profile, the
\* second awaited call, then the body, whose read touches no table, and the
\* catch for a body that does not parse.
ResolveProfile(r) ==
    /\ req[r].pc = "profile"
    /\ LET prof == ProfileOfUser(profiles, req[r].jwt)
       IN  IF prof = NULL
           THEN Respond(r, Response(400, "Profile not found", 0))
           ELSE IF Malformed(req[r].body)
           THEN Respond(r, Response(500, "Unexpected token", 0))
           ELSE req' = [req EXCEPT ![r].pc = "item",
                                   ![r].prof = prof,
                                   ![r].items = ItemsOf(req[r].body),
                                   ![r].k = 1]
    /\ UNCHANGED <<quantity, partRows, serial, ledger, profiles, stocked,
                   nUpdates, lastUpdate, nManual, nEdits, auth, categories,
                   fn, ui, scan, page, login>>

\* Lines 118-127 and 166-176: the head of the loop over items, or the
\* success response once the loop is over.
BeginItem(r) ==
    /\ req[r].pc = "item"
    /\ IF req[r].k > Len(req[r].items)
       THEN Respond(r, Response(200, NULL, TotalItems(req[r].items)))
       ELSE LET item == req[r].items[req[r].k]
                part_id == item.part_id
                qty == NumberOr1(item)
            IN  IF part_id = 0 \/ qty <= 0
                THEN Respond(r, Response(400, "Invalid part_id or quantity", 0))
                ELSE req' = [req EXCEPT ![r].pc = "rpc", ![r].i = 0]
    /\ UNCHANGED <<quantity, partRows, serial, ledger, profiles, stocked,
                   nUpdates, lastUpdate, nManual, nEdits, auth, categories,
                   fn, ui, scan, page, login>>

\* the realtime channel of the CategoryProducts page, subscribed to UPDATE
\* on parts with filter category_id=eq.categoryId: an update of a row of
\* that category is one more event for the handler of the page
Notify(pg, part, updated) ==
    IF /\ updated
       /\ pg.pc # "closed"
       /\ part \in DOMAIN partRows
       /\ partRows[part].category_id = pg.categoryId
    THEN [pg EXCEPT !.events = @ + 1]
    ELSE pg

\* the loop over units that goes on to the next unit after a failed call
RpcContinue(r) ==
    /\ req[r].pc = "rpc"
    /\ LET item == req[r].items[req[r].k]
           part_id == item.part_id
           qty == NumberOr1(item)
           res == TransactionDecrementAndTrack(quantity, ledger, profiles,
                                               part_id, req[r].prof)
           updateErr == res.error
       IN  /\ quantity' = res.quantity
           /\ ledger' = res.ledger
           /\ page' = Notify(page, part_id, res.quantity # quantity)
           /\ IF updateErr # NoError
              THEN req' = [req EXCEPT
                      ![r].calls = @ + 1,
                      ![r].i = IF req[r].i + 1 < qty THEN @ + 1 ELSE 0,
                      ![r].k = IF req[r].i + 1 < qty THEN @ ELSE @ + 1,
                      ![r].pc = IF req[r].i + 1 < qty THEN "rpc" ELSE "item"]
              ELSE req' = [req EXCEPT
                      ![r].calls = @ + 1,
                      ![r].ins = @ + (Len(res.ledger) - Len(ledger)),
                      ![r].dec = @ + (IF res.quantity = quantity THEN 0 ELSE 1),
                      ![r].i = IF req[r].i + 1 < qty THEN @ + 1 ELSE 0,
                      ![r].k = IF req[r].i + 1 < qty THEN @ ELSE @ + 1,
                      ![r].pc = IF req[r].i + 1 < qty THEN "rpc" ELSE "item"]
    /\ UNCHANGED <<partRows, serial, profiles, stocked, nUpdates,
                   lastUpdate, nManual, nEdits, auth, categories, fn, ui,
                   scan, login>>

\* the loop over units taking the part of the items from the end of the array
RpcLastFirst(r) ==
    /\ req[r].pc = "rpc"
    /\ LET item == req[r].items[req[r].k]
           part_id == req[r].items[Len(req[r].items) + 1 - req[r].k].part_id
           qty == NumberOr1(item)
           res == TransactionDecrementAndTrack(quantity, ledger, profiles,
                                               part_id, req[r].prof)
           updateErr == res.error
       IN  /\ quantity' = res.quantity
           /\ ledger' = res.ledger
           /\ page' = Notify(page, part_id, res.quantity # quantity)
           /\ IF updateErr # NoError
              THEN req' = [req EXCEPT
                      ![r].pc = "done",
                      ![r].calls = @ + 1,
                      ![r].resp =
                          IF Includes(updateErr.message, "quantity")
                             \/ updateErr.code = "23514"
                          THEN Response(400, "Insufficient stock", 0)
                          ELSE Response(500, "Checkout failed", 0)]
              ELSE req' = [req EXCEPT
                      ![r].calls = @ + 1,
                      ![r].ins = @ + (Len(res.ledger) - Len(ledger)),
                      ![r].dec = @ + (IF res.quantity = quantity THEN 0 ELSE 1),
                      ![r].i = IF req[r].i + 1 < qty THEN @ + 1 ELSE 0,
                      ![r].k = IF req[r].i + 1 < qty THEN @ ELSE @ + 1,
                      ![r].pc = IF req[r].i + 1 < qty THEN "rpc" ELSE "item"]
    /\ UNCHANGED <<partRows, serial, profiles, stocked, nUpdates,
                   lastUpdate, nManual, nEdits, auth, categories, fn, ui,
                   scan, login>>

\* Lines 134-163: one iteration of the loop over units, that is one call
\* of the procedure and the handling of its error.
Rpc(r) ==
    /\ req[r].pc = "rpc"
    /\ LET item == req[r].items[req[r].k]
           part_id == item.part_id
           qty == NumberOr1(item)
           res == TransactionDecrementAndTrack(quantity, ledger, profiles,
                                               part_id, req[r].prof)
           updateErr == res.error
       IN  /\ quantity' = res.quantity
           /\ ledger' = res.ledger
           /\ page' = Notify(page, part_id, res.quantity # quantity)
           /\ IF updateErr # NoError
              THEN req' = [req EXCEPT
                      ![r].pc = "done",
                      ![r].calls = @ + 1,
                      ![r].resp =
                          IF Includes(updateErr.message, "quantity")
                             \/ updateErr.code = "23514"
                          THEN Response(400, "Insufficient stock", 0)
                          ELSE Response(500, "Checkout failed", 0)]
              ELSE req' = [req EXCEPT
                      ![r].calls = @ + 1,
                      ![r].ins = @ + (Len(res.ledger) - Len(ledger)),
                      ![r].dec = @ + (IF res.quantity = quantity THEN 0 ELSE 1),
                      ![r].i = IF req[r].i + 1 < qty THEN @ + 1 ELSE 0,
                      ![r].k = IF req[r].i + 1 < qty THEN @ ELSE @ + 1,
                      ![r].pc = IF req[r].i + 1 < qty THEN "rpc" ELSE "item"]
    /\ UNCHANGED <<partRows, serial, profiles, stocked, nUpdates,
                   lastUpdate, nManual, nEdits, auth, categories, fn, ui,
                   scan, login>>

(***************************************************************************)
(* Admin status update (handleUpdateReservation) and manual entry.         *)
(***************************************************************************)
\* get_user_role(auth.uid())
GetUserRole(profs, user_uuid) ==
    IF ProfileOfUser(profs, user_uuid) = NULL
    THEN NULL
    ELSE profs[ProfileOfUser(profs, user_uuid)].role

\* Postgres check_violation raised by inventory_tracking_status_check
CheckError ==
    [code |-> "23514",
     message |-> <<"new", "row", "for", "relation", "inventory_tracking",
                   "violates", "check", "constraint",
                   "inventory_tracking_status_check">>]

\* Postgres insufficient_privilege: the row of an INSERT fails the policy
RlsError(table) ==
    [code |-> "42501",
     message |-> <<"new", "row", "violates", "row-level", "security",
                   "policy", "for", "table", table>>]

\* the policy without its role test: every authenticated user passes
CanManageTrackingAnyone(profs, actor) == actor \in AuthUsers

\* the policy "Allow admin to manage inventory tracking"
CanManageTracking(profs, actor) == GetUserRole(profs, actor) = "admin"

\* the update writing the remarks into the wrong column
UpdateRowNotes(row, editStatus, editRemarks) ==
    [row EXCEPT !.status = editStatus, !.notes = editRemarks]

\* .update({ status: editStatus, admin_remarks: editRemarks }) on one row
UpdateRow(row, editStatus, editRemarks) ==
    [row EXCEPT !.status = editStatus, !.admin_remarks = editRemarks]

\* the update restricted to the transitions reserved -> issued and
\* issued -> returned, lost, damaged
UpdateTrackingStrict(l, profs, actor, reservationId, editStatus, editRemarks) ==
    IF /\ CanManageTracking(profs, actor)
       /\ reservationId \in 1 .. Len(l)
       /\ \/ l[reservationId].status = "reserved" /\ editStatus = "issued"
          \/ /\ l[reservationId].status = "issued"
             /\ editStatus \in {"returned", "lost", "damaged"}
    THEN [ledger |-> [l EXCEPT ![reservationId] =
                         UpdateRow(@, editStatus, editRemarks)],
          error |-> NoError]
    ELSE [ledger |-> l, error |-> NoError]

\* supabase.from("inventory_tracking").update({status, admin_remarks})
\* .eq("id", reservationId), as the store runs it: the policy leaves a
\* non-admin no row to update, which is not an error; the status check
\* applies to the row that is written.  The id of a row is its position in
\* the ledger.
UpdateTracking(l, profs, actor, reservationId, editStatus, editRemarks) ==
    IF CanManageTracking(profs, actor) /\ reservationId \in 1 .. Len(l)
    THEN IF editStatus \in Statuses
         THEN [ledger |-> [l EXCEPT ![reservationId] =
                              UpdateRow(@, editStatus, editRemarks)],
               error |-> NoError]
         ELSE [ledger |-> l, error |-> CheckError]
    ELSE [ledger |-> l, error |-> NoError]

\* the status update that puts a returned unit back into stock
UpdateReservationRestock(actor, reservationId, editStatus, editRemarks) ==
    /\ nUpdates < MaxUpdates
    /\ nUpdates' = nUpdates + 1
    /\ LET res == UpdateTracking(ledger, profiles, actor, reservationId,
                                 editStatus, editRemarks)
       IN  /\ ledger' = res.ledger
           /\ quantity' =
                IF res.ledger # ledger /\ editStatus = "returned"
                THEN [quantity EXCEPT ![ledger[reservationId].part_id] = @ + 1]
                ELSE quantity
           /\ lastUpdate' =
                [actor |-> actor, id |-> reservationId,
                 status |-> editStatus, remarks |-> editRemarks,
                 prev |-> IF reservationId \in 1 .. Len(ledger)
                          THEN ledger[reservationId].status ELSE NULL,
                 toast |-> IF res.error = NoError THEN "Success" ELSE "Error"]
    /\ UNCHANGED <<partRows, serial, profiles, req, stocked, nManual,
                   nEdits, auth, categories, fn, ui, scan, page, login>>

\* handleUpdateReservation: the update and the toast that reports it.
\* prev keeps the status the row had before, for the properties.
UpdateReservation(actor, reservationId, editStatus, editRemarks) ==
    /\ nUpdates < MaxUpdates
    /\ nUpdates' = nUpdates + 1
    /\ LET res == UpdateTracking(ledger, profiles, actor, reservationId,
                                 editStatus, editRemarks)
       IN  /\ ledger' = res.ledger
           /\ lastUpdate' =
                [actor |-> actor, id |-> reservationId,
                 status |-> editStatus, remarks |-> editRemarks,
                 prev |-> IF reservationId \in 1 .. Len(ledger)
                          THEN ledger[reservationId].status ELSE NULL,
                 toast |-> IF res.error = NoError THEN "Success" ELSE "Error"]
    /\ UNCHANGED <<quantity, partRows, serial, profiles, req, stocked,
                   nManual, nEdits, auth, categories, fn, ui, scan, page,
                   login>>

\* supabase.from("inventory_tracking").insert({ part_id, team_user_id,
\* status, notes }) as the store runs it: the policy, then the status check,
\* then the two foreign keys
InsertManual(l, q, profs, actor, part_id, team_user_id, status, notes) ==
    IF ~CanManageTracking(profs, actor)
    THEN [ledger |-> l, error |-> RlsError("inventory_tracking")]
    ELSE IF status \notin Statuses
    THEN [ledger |-> l, error |-> CheckError]
    ELSE IF InsertError(q, profs, part_id, team_user_id) # NoError
    THEN [ledger |-> l,
          error |-> InsertError(q, profs, part_id, team_user_id)]
    ELSE [ledger |-> Append(l, [part_id |-> part_id,
                                team_user_id |-> team_user_id,
                                status |-> status,
                                scanned_at |-> Now(l),
                                notes |-> notes,
                                admin_remarks |-> NULL]),
          error |-> NoError]

\* the latest write of an admin page: the handler, who ran it, the row it
\* was about (a part or category id, or a profile id) and the toast shown
Toast(op, actor, target, user, toast) ==
    [op |-> op, actor |-> actor, target |-> target, user |-> user,
     toast |-> toast]

\* handleManualEntry of the admin inventory page: an insert of one row with
\* the status and notes of the form, and its toast; it does not touch parts.
ManualEntry(actor, part_id, team_user_id, status, notes) ==
    /\ nManual < MaxManual
    /\ nManual' = nManual + 1
    /\ LET res == InsertManual(ledger, quantity, profiles, actor, part_id,
                               team_user_id, status, notes)
       IN  /\ ledger' = res.ledger
           /\ ui' = Toast("manual-entry", actor, part_id, team_user_id,
                          IF res.error = NoError
                          THEN "Record added"
                          ELSE "Error adding record")
    /\ UNCHANGED <<quantity, partRows, serial, profiles, req, stocked,
                   nUpdates, lastUpdate, nEdits, auth, categories, fn, scan,
                   page, login>>

(***************************************************************************)
(* User management: auth.users, profiles, and the edge functions           *)
(* bootstrap-admin, admin-create-user and admin-delete-user.               *)
(***************************************************************************)
Calls == 1 .. NumCalls

\* part_id IS NULL, written as 0, which is no value of the SERIAL column
NoPart == 0

\* const email = "admin@robothon.local"
AdminEmail == "admin@robothon.local"

\* const password = "admin123"
AdminPassword == "admin123"

\* const email = `${username}@team.local`
TeamEmail(username) == username \o "@team.local"

\* the uuid auth gives to the user created by invocation f: fresh, and
\* never given twice
NewUserId(f) == "new" \o ToString(f)

\* the uuid of the profile row inserted for a user
NewProfileId(user_id) == "p-" \o user_id

\* String.prototype.trim on the strings the forms send
Trim(str) ==
    CASE str = "  " -> ""
      [] str = " bob " -> "bob"
      [] OTHER -> str

\* Postgres unique_violation
UniqueError(constraint) ==
    [code |-> "23505",
     message |-> <<"duplicate", "key", "value", "violates", "unique",
                   "constraint", constraint>>]

\* error of auth.admin.createUser for an address that is taken
EmailExists ==
    [code |-> "email_exists",
     message |-> <<"A", "user", "with", "this", "email", "address", "has",
                   "already", "been", "registered">>]

\* error of auth.admin.deleteUser for an id without a user
UserNotFound ==
    [code |-> "user_not_found", message |-> <<"User", "not", "found">>]

\* adminClient.auth.admin.createUser({ email, password, email_confirm })
CreateUser(a, id, email, password) ==
    IF \E u \in DOMAIN a : a[u].email = email
    THEN [auth |-> a, error |-> EmailExists]
    ELSE [auth |-> a @@ (id :> [email |-> email, password |-> password]),
          error |-> NoError]

\* adminClient.from("profiles").insert({ user_id, username, role }) against
\* the constraints of table profiles
InsertProfile(profs, a, user_id, username, role) ==
    IF \E id \in DOMAIN profs : profs[id].user_id = user_id
    THEN [profiles |-> profs, error |-> UniqueError("profiles_user_id_key")]
    ELSE IF \E id \in DOMAIN profs : profs[id].username = username
    THEN [profiles |-> profs, error |-> UniqueError("profiles_username_key")]
    ELSE IF user_id \notin DOMAIN a
    THEN [profiles |-> profs,
          error |-> FkErrorOn("profiles", "profiles_user_id_fkey")]
    ELSE [profiles |-> profs @@ (NewProfileId(user_id) :>
                          [user_id |-> user_id, username |-> username,
                           role |-> role]),
          error |-> NoError]

\* inventory_tracking_team_user_id_fkey ... ON DELETE SET NULL
OnDeleteProfile(l, ids) ==
    [n \in 1 .. Len(l) |->
        IF l[n].team_user_id \in ids
        THEN [l[n] EXCEPT !.team_user_id = NULL]
        ELSE l[n]]

\* adminClient.auth.admin.deleteUser(userId): the row of auth.users goes,
\* the profile goes with it (profiles.user_id ... ON DELETE CASCADE), and
\* the tracking rows of the profile lose their reference
DeleteUser(a, profs, l, userId) ==
    IF userId \notin DOMAIN a
    THEN [auth |-> a, profiles |-> profs, ledger |-> l, error |-> UserNotFound]
    ELSE LET gone == {id \in DOMAIN profs : profs[id].user_id = userId}
         IN  [auth |-> [u \in DOMAIN a \ {userId} |-> a[u]],
              profiles |-> [id \in DOMAIN profs \ gone |-> profs[id]],
              ledger |-> OnDeleteProfile(l, gone),
              error |-> NoError]

Reply(status, body) == [status |-> status, body |-> body]

NoReply == Reply(0, NULL)

IdleCall ==
    [pc |-> "idle", op |-> NULL, method |-> NULL, jwt |-> NULL,
     body |-> <<>>, userId |-> NULL, username |-> NULL, password |-> NULL,
     role |-> NULL, email |-> NULL, created |-> NULL, resp |-> NoReply]

\* the return of a response
Return(f, reply) == fn' = [fn EXCEPT ![f].pc = "done", ![f].resp = reply]

\* an invocation comes in: the function, and the request it was sent
Invoke(f, op, method, jwt, body) ==
    [fn EXCEPT ![f].op = op, ![f].method = method, ![f].jwt = jwt,
               ![f].body = body]

\* the token checks at the head of admin-create-user and admin-delete-user,
\* up to auth.getUser, their first awaited call
TokenGate(jwt) ==
    IF jwt = ""
    THEN Reply(401, "Missing Authorization")
    ELSE IF AuthGetUser(jwt) = NULL
    THEN Reply(401, "Invalid token")
    ELSE NoReply

\* the select of the caller's profile, their second awaited call, and the
\* test of its role
AdminGate(jwt) ==
    IF GetUserRole(profiles, jwt) # "admin"
    THEN Reply(403, "Forbidden")
    ELSE NoReply

\* String(body.userId || "").trim()
UserIdOf(body) == IF "userId" \in DOMAIN body THEN Trim(body.userId) ELSE ""

\* admin-delete-user, lines 14-40: the method, the token, auth.getUser
DeleteUserBegin(f, method, jwt, body) ==
    /\ fn[f].pc = "idle"
    /\ LET start == Invoke(f, "admin-delete-user", method, jwt, body)
       IN  IF method = "OPTIONS"
           THEN fn' = [start EXCEPT ![f].pc = "done",
                                    ![f].resp = Reply(200, NULL)]
           ELSE IF method # "POST"
           THEN fn' = [start EXCEPT ![f].pc = "done",
                          ![f].resp = Reply(405, "Method Not Allowed")]
           ELSE IF TokenGate(jwt) # NoReply
           THEN fn' = [start EXCEPT ![f].pc = "done",
                                    ![f].resp = TokenGate(jwt)]
           ELSE fn' = [start EXCEPT ![f].pc = "caller"]
    /\ UNCHANGED <<quantity, partRows, serial, ledger, profiles, req,
                   stocked, nUpdates, lastUpdate, nManual, nEdits, auth,
                   categories, ui, scan, page, login>>

\* admin-delete-user, lines 42-64 and 107-113: the profile of the caller,
\* then the body and its userId
DeleteUserCaller(f) ==
    /\ fn[f].pc = "caller"
    /\ fn[f].op = "admin-delete-user"
    /\ IF AdminGate(fn[f].jwt) # NoReply
       THEN Return(f, AdminGate(fn[f].jwt))
       ELSE IF Malformed(fn[f].body)
       THEN Return(f, Reply(500, "Unexpected token"))
       ELSE IF UserIdOf(fn[f].body) = ""
       THEN fn' = [fn EXCEPT ![f].pc = "done", ![f].userId = "",
                             ![f].resp = Reply(400, "Missing userId")]
       ELSE fn' = [fn EXCEPT ![f].pc = "target",
                             ![f].userId = UserIdOf(fn[f].body)]
    /\ UNCHANGED <<quantity, partRows, serial, ledger, profiles, req,
                   stocked, nUpdates, lastUpdate, nManual, nEdits, auth,
                   categories, ui, scan, page, login>>

\* admin-delete-user, lines 66-90: the profile of the target
DeleteUserTarget(f) ==
    /\ fn[f].pc = "target"
    /\ fn[f].op = "admin-delete-user"
    /\ IF ProfileOfUser(profiles, fn[f].userId) = NULL
       THEN Return(f, Reply(404, "User not found"))
       ELSE IF GetUserRole(profiles, fn[f].userId) = "admin"
       THEN Return(f, Reply(403, "Cannot delete admin users"))
       ELSE fn' = [fn EXCEPT ![f].pc = "delete",
                      ![f].role = GetUserRole(profiles, fn[f].userId)]
    /\ UNCHANGED <<quantity, partRows, serial, ledger, profiles, req,
                   stocked, nUpdates, lastUpdate, nManual, nEdits, auth,
                   categories, ui, scan, page, login>>

\* admin-delete-user, lines 92-113: the deletion, and the catch
DeleteUserDelete(f) ==
    /\ fn[f].pc = "delete"
    /\ fn[f].op = "admin-delete-user"
    /\ LET res == DeleteUser(auth, profiles, ledger, fn[f].userId)
       IN  /\ auth' = res.auth
           /\ profiles' = res.profiles
           /\ ledger' = res.ledger
           /\ IF res.error # NoError
              THEN Return(f, Reply(500, "User not found"))
              ELSE Return(f, Reply(200, "success"))
    /\ UNCHANGED <<quantity, partRows, serial, req, stocked, nUpdates,
                   lastUpdate, nManual, nEdits, categories, ui, scan, page,
                   login>>

\* String(body.username || "").trim()
UsernameOf(body) ==
    IF "username" \in DOMAIN body THEN Trim(body.username) ELSE ""

\* String(body.password || "").trim()
PasswordOf(body) ==
    IF "password" \in DOMAIN body THEN Trim(body.password) ELSE ""

\* body.role === "admin" ? "admin" : "team"
RoleOf(body) ==
    IF "role" \in DOMAIN body /\ body.role = "admin" THEN "admin" ELSE "team"

\* admin-create-user, lines 9-24: the method, the token, auth.getUser
CreateUserBegin(f, method, jwt, body) ==
    /\ fn[f].pc = "idle"
    /\ LET start == Invoke(f, "admin-create-user", method, jwt, body)
       IN  IF method # "POST"
           THEN fn' = [start EXCEPT ![f].pc = "done",
                          ![f].resp = Reply(405, "Method Not Allowed")]
           ELSE IF TokenGate(jwt) # NoReply
           THEN fn' = [start EXCEPT ![f].pc = "done",
                                    ![f].resp = TokenGate(jwt)]
           ELSE fn' = [start EXCEPT ![f].pc = "caller"]
    /\ UNCHANGED <<quantity, partRows, serial, ledger, profiles, req,
                   stocked, nUpdates, lastUpdate, nManual, nEdits, auth,
                   categories, ui, scan, page, login>>

\* admin-create-user, lines 26-48 and 69-74: the profile of the caller,
\* then the body, its checks, and the address of the new user
CreateUserCaller(f) ==
    /\ fn[f].pc = "caller"
    /\ fn[f].op = "admin-create-user"
    /\ LET username == UsernameOf(fn[f].body)
           password == PasswordOf(fn[f].body)
           read == [fn EXCEPT ![f].username = username,
                              ![f].password = password,
                              ![f].role = RoleOf(fn[f].body)]
       IN  IF AdminGate(fn[f].jwt) # NoReply
           THEN Return(f, AdminGate(fn[f].jwt))
           ELSE IF Malformed(fn[f].body)
           THEN Return(f, Reply(500, "Unexpected token"))
           ELSE IF Len(username) < 3
           THEN fn' = [read EXCEPT ![f].pc = "done",
                          ![f].resp = Reply(400, "Username too short")]
           ELSE IF Len(password) < 6
           THEN fn' = [read EXCEPT ![f].pc = "done",
                          ![f].resp = Reply(400, "Password must be at least 6 characters")]
           ELSE fn' = [read EXCEPT ![f].pc = "create",
                                   ![f].email = TeamEmail(username)]
    /\ UNCHANGED <<quantity, partRows, serial, ledger, profiles, req,
                   stocked, nUpdates, lastUpdate, nManual, nEdits, auth,
                   categories, ui, scan, page, login>>

\* the check that never finds an admin profile
HasAdminNever(profs) == FALSE

\* bootstrap-admin, lines 13-26: is there an admin profile
HasAdmin(profs) == \E id \in DOMAIN profs : profs[id].role = "admin"

\* bootstrap-admin, lines 11-30; the function looks at no method, no token
\* and no body
BootstrapCheck(f) ==
    /\ fn[f].pc = "idle"
    /\ IF HasAdmin(profiles)
       THEN fn' = [fn EXCEPT ![f].pc = "done", ![f].op = "bootstrap-admin",
                             ![f].resp = Reply(200, "created:false")]
       ELSE fn' = [fn EXCEPT ![f].pc = "create", ![f].op = "bootstrap-admin",
                             ![f].username = "admin", ![f].role = "admin",
                             ![f].password = AdminPassword,
                             ![f].email = AdminEmail]
    /\ UNCHANGED <<quantity, partRows, serial, ledger, profiles, req,
                   stocked, nUpdates, lastUpdate, nManual, nEdits, auth,
                   categories, ui, scan, page, login>>

\* createUser of an invocation, and the throw on its error
CreateStep(f) ==
    /\ fn[f].pc = "create"
    /\ LET res == CreateUser(auth, NewUserId(f), fn[f].email, fn[f].password)
       IN  /\ auth' = res.auth
           /\ IF res.error # NoError
              THEN Return(f, Reply(500, "A user with this email address has already been registered"))
              ELSE fn' = [fn EXCEPT ![f].pc = "profile",
                                    ![f].created = NewUserId(f)]
    /\ UNCHANGED <<quantity, partRows, serial, ledger, profiles, req,
                   stocked, nUpdates, lastUpdate, nManual, nEdits,
                   categories, ui, scan, page, login>>

\* the insert of the profile of an invocation, the throw on its error, and
\* the response of a success; of the message of the error the reply keeps
\* the name of the constraint, its last word
ProfileStep(f, success) ==
    /\ fn[f].pc = "profile"
    /\ LET res == InsertProfile(profiles, auth, fn[f].created,
                                fn[f].username, fn[f].role)
       IN  /\ profiles' = res.profiles
           /\ IF res.error # NoError
              THEN Return(f, Reply(500, res.error.message[Len(res.error.message)]))
              ELSE Return(f, Reply(200, success))
    /\ UNCHANGED <<quantity, partRows, serial, ledger, req, stocked,
                   nUpdates, lastUpdate, nManual, nEdits, auth, categories,
                   ui, scan, page, login>>

\* admin-create-user, lines 50-56
CreateUserCreate(f) == fn[f].op = "admin-create-user" /\ CreateStep(f)

\* admin-create-user, lines 58-73
CreateUserProfile(f) == fn[f].op = "admin-create-user" /\ ProfileStep(f, "ok")

\* bootstrap-admin, lines 32-38
BootstrapCreate(f) == fn[f].op = "bootstrap-admin" /\ CreateStep(f)

\* bootstrap-admin, lines 40-57
BootstrapProfile(f) ==
    fn[f].op = "bootstrap-admin" /\ ProfileStep(f, "created:true")

(***************************************************************************)
(* The user page of the admin (handleEditUser) and the login form.         *)
(***************************************************************************)
\* supabase.from("profiles").update({ username, role }).eq("id", id) as the
\* store runs it for the signed-in user: the policy "Allow authenticated
\* users to update their own profile" leaves the rows of other users out,
\* and it does not look at the role that is written
UpdateProfile(profs, actor, id, username, role) ==
    IF id \notin DOMAIN profs \/ profs[id].user_id # actor
    THEN [profiles |-> profs, error |-> NoError]
    ELSE IF \E x \in DOMAIN profs \ {id} : profs[x].username = username
    THEN [profiles |-> profs, error |-> UniqueError("profiles_username_key")]
    ELSE [profiles |-> [profs EXCEPT ![id].username = username,
                                     ![id].role = role],
          error |-> NoError]

\* handleEditUser: the update and its toast
EditUser(actor, id, username, role) ==
    /\ nEdits < MaxEdits
    /\ nEdits' = nEdits + 1
    /\ LET res == UpdateProfile(profiles, actor, id, username, role)
       IN  /\ profiles' = res.profiles
           /\ ui' = Toast("edit-user", actor, 0, id,
                          IF res.error = NoError
                          THEN "User updated"
                          ELSE "Error updating user")
    /\ UNCHANGED <<quantity, partRows, serial, ledger, req, stocked,
                   nUpdates, lastUpdate, nManual, auth, categories, fn,
                   scan, page, login>>

\* email: "admin@robothon.com" of the login form
LoginEmail == "admin@robothon.com"

\* error of auth.signUp for an address that is taken
AlreadyRegistered ==
    [code |-> "user_already_exists",
     message |-> <<"User", "already", "registered">>]

\* String.prototype.includes for a phrase of several words
IncludesWords(message, words) ==
    \E n \in 1 .. Len(message) :
        /\ n + Len(words) - 1 <= Len(message)
        /\ SubSeq(message, n, n + Len(words) - 1) = words

\* supabase.auth.signUp({ email, password })
SignUp(a, id, email, password) ==
    IF \E u \in DOMAIN a : a[u].email = email
    THEN [auth |-> a, error |-> AlreadyRegistered]
    ELSE [auth |-> a @@ (id :> [email |-> email, password |-> password]),
          error |-> NoError]

\* supabase.auth.signInWithPassword({ email, password }): the user, if any
SignIn(a, email, password) ==
    IF \E u \in DOMAIN a : a[u].email = email /\ a[u].password = password
    THEN CHOOSE u \in DOMAIN a :
            a[u].email = email /\ a[u].password = password
    ELSE NULL

\* the end of handleSubmit: the toast, and the form is free again
LoginEnds(toast) ==
    login' = [login EXCEPT !.pc = "idle", !.user = NULL, !.n = @ + 1,
                           !.toast = toast]

\* handleSubmit of the login form, lines 19-38 and 67-74: with the default
\* credentials of the admin the sign-up of the admin user, otherwise the
\* sign-in of the user
LoginSubmit(role, email, password) ==
    /\ login.pc = "idle"
    /\ login.n < MaxLogins
    /\ IF role = "admin" /\ email = "admin" /\ password = AdminPassword
       THEN LET res == SignUp(auth, NewUserId(NumCalls + login.n + 1),
                              LoginEmail, AdminPassword)
            IN  /\ auth' = res.auth
                /\ IF /\ res.error # NoError
                      /\ ~IncludesWords(res.error.message,
                                        <<"already", "registered">>)
                   THEN LoginEnds("Login failed")
                   ELSE login' = [login EXCEPT !.pc = "signin"]
       ELSE /\ auth' = auth
            /\ IF SignIn(auth, email, password) = NULL
               THEN LoginEnds("Login failed")
               ELSE login' = [login EXCEPT !.pc = "profile",
                                 !.user = SignIn(auth, email, password)]
    /\ UNCHANGED <<quantity, partRows, serial, ledger, profiles, req,
                   stocked, nUpdates, lastUpdate, nManual, nEdits,
                   categories, fn, ui, scan, page>>

\* lines 40-45: the sign-in of the admin user
LoginSignIn ==
    /\ login.pc = "signin"
    /\ IF SignIn(auth, LoginEmail, AdminPassword) = NULL
       THEN LoginEnds("Login failed")
       ELSE login' = [login EXCEPT !.pc = "upsert",
                         !.user = SignIn(auth, LoginEmail, AdminPassword)]
    /\ UNCHANGED <<quantity, partRows, serial, ledger, profiles, req,
                   stocked, nUpdates, lastUpdate, nManual, nEdits, auth,
                   categories, fn, ui, scan, page>>

\* lines 47-66: the upsert of the admin profile by the signed-in user, an
\* insert since it names no id; its error is not thrown
LoginUpsert ==
    /\ login.pc = "upsert"
    /\ profiles' = InsertProfile(profiles, auth, login.user, "admin",
                                 "admin").profiles
    /\ LoginEnds("Login successful")
    /\ UNCHANGED <<quantity, partRows, serial, ledger, req, stocked,
                   nUpdates, lastUpdate, nManual, nEdits, auth, categories,
                   fn, ui, scan, page>>

\* lines 76-91: the profile of the user who signed in
LoginProfile ==
    /\ login.pc = "profile"
    /\ IF ProfileOfUser(profiles, login.user) = NULL
       THEN LoginEnds("Login failed")
       ELSE LoginEnds("Login successful")
    /\ UNCHANGED <<quantity, partRows, serial, ledger, profiles, req,
                   stocked, nUpdates, lastUpdate, nManual, nEdits, auth,
                   categories, fn, ui, scan, page>>

(***************************************************************************)
(* Admin pages: parts, categories, deletion of a user, the barcode scan.   *)
(***************************************************************************)
\* the policies "Allow admin to manage parts" and "Allow admin to manage
\* categories"
CanManageParts(profs, actor) == GetUserRole(profs, actor) = "admin"

\* the first foreign key of inventory_tracking.part_id: ON DELETE CASCADE
OnDeletePartCascade(l, part) ==
    SelectSeq(l, LAMBDA row : row.part_id # part)

\* inventory_tracking_part_id_fkey ... ON DELETE SET NULL
OnDeletePart(l, part) ==
    [n \in 1 .. Len(l) |->
        IF l[n].part_id = part
        THEN [l[n] EXCEPT !.part_id = NoPart]
        ELSE l[n]]

\* parts.barcode
Barcode(p) == partRows[p].barcode

\* parseInt on the strings that the forms and the files of the model
\* carry: the leading integer
ParseInt(value) ==
    CASE value = "0" -> 0
      [] value = "1" -> 1
      [] value = "2" -> 2
      [] value = "5" -> 5
      [] value = "-3" -> -3
      [] value = "2.7" -> 2

\* parseInt gives NaN for every other string: "", "abc", and ".0", which
\* does not begin with a digit
IsNaN(value) == value \notin {"0", "1", "2", "5", "-3", "2.7"}

\* parseInt(value) || d: NaN and 0 both give d
ParseIntOr(value, d) ==
    IF IsNaN(value) \/ ParseInt(value) = 0 THEN d ELSE ParseInt(value)

\* quantity: parseInt(value) in the payload of an insert or update of
\* parts, as JSON.stringify writes it: NaN is written null.  <<>> stands
\* for null, <<n>> for the number n.
JsonNumber(value) == IF IsNaN(value) THEN <<>> ELSE <<ParseInt(value)>>

\* Postgres not_null_violation
NotNullError(table, column) ==
    [code |-> "23502",
     message |-> <<"null", "value", "in", "column", column, "of", "relation",
                   table, "violates", "not-null", "constraint">>]

\* supabase.from("parts").insert([{ category_id, name, quantity, barcode }])
\* as the store runs it: the policy, then NOT NULL of quantity, then the
\* unique index of barcode, then the foreign key to categories.  The new
\* row takes the id the sequence gives.
InsertPart(q, rows, cats, profs, id, actor, category_id, qty, barcode) ==
    IF ~CanManageParts(profs, actor)
    THEN [quantity |-> q, partRows |-> rows, error |-> RlsError("parts")]
    ELSE IF qty = <<>>
    THEN [quantity |-> q, partRows |-> rows,
          error |-> NotNullError("parts", "quantity")]
    ELSE IF barcode # NULL /\ \E p \in DOMAIN rows : rows[p].barcode = barcode
    THEN [quantity |-> q, partRows |-> rows,
          error |-> UniqueError("parts_barcode_key")]
    ELSE IF category_id \notin DOMAIN cats
    THEN [quantity |-> q, partRows |-> rows,
          error |-> FkErrorOn("parts", "parts_category_id_fkey")]
    ELSE [quantity |-> q @@ (id :> qty[1]),
          partRows |-> rows @@ (id :> [category_id |-> category_id,
                                       barcode |-> barcode]),
          error |-> NoError]

\* handleAddPart of the parts page of a category: the insert, with
\* parseInt of the quantity field, and its toast
AddPart(actor, categoryId, value) ==
    /\ serial.parts < Cardinality(Parts) + 1 + MaxNewParts
    /\ LET res == InsertPart(quantity, partRows, categories, profiles,
                             serial.parts, actor, categoryId,
                             JsonNumber(value), NULL)
       IN  /\ quantity' = res.quantity
           /\ partRows' = res.partRows
           /\ stocked' = IF res.error = NoError
                         THEN stocked @@ (serial.parts :>
                                             res.quantity[serial.parts])
                         ELSE stocked
           /\ ui' = Toast("add-part", actor, serial.parts, NULL,
                          IF res.error = NoError
                          THEN "Part added"
                          ELSE "Error adding part")
    /\ serial' = [serial EXCEPT !.parts = @ + 1]
    /\ UNCHANGED <<ledger, profiles, req, nUpdates, lastUpdate, nManual,
                   nEdits, auth, categories, fn, scan, page, login>>

\* handleManualAdd of the admin inventory page: the insert, with
\* parseInt(manualQuantity) || 1 and barcode.trim() || null, and its toast
ManualAdd(actor, selectedCategoryId, manualQuantity, barcode) ==
    /\ serial.parts < Cardinality(Parts) + 1 + MaxNewParts
    /\ selectedCategoryId # 0
    /\ LET res == InsertPart(quantity, partRows, categories, profiles,
                             serial.parts, actor, selectedCategoryId,
                             <<ParseIntOr(manualQuantity, 1)>>,
                             IF Trim(barcode) = "" THEN NULL
                             ELSE Trim(barcode))
       IN  /\ quantity' = res.quantity
           /\ partRows' = res.partRows
           /\ stocked' = IF res.error = NoError
                         THEN stocked @@ (serial.parts :>
                                             res.quantity[serial.parts])
                         ELSE stocked
           /\ ui' = Toast("manual-add", actor, serial.parts, NULL,
                          IF res.error = NoError
                          THEN "Part added"
                          ELSE "Error adding part")
    /\ serial' = [serial EXCEPT !.parts = @ + 1]
    /\ UNCHANGED <<ledger, profiles, req, nUpdates, lastUpdate, nManual,
                   nEdits, auth, categories, fn, scan, page, login>>

\* supabase.from("parts").update({ name, description, quantity, image_url })
\* .eq("id", part) as the store runs it: the policy leaves a non-admin no
\* row to update, which is not an error; a row that is there is checked
\* against NOT NULL of quantity
UpdatePart(q, profs, actor, part, qty) ==
    IF ~(CanManageParts(profs, actor) /\ part \in DOMAIN q)
    THEN [quantity |-> q, rows |-> 0, error |-> NoError]
    ELSE IF qty = <<>>
    THEN [quantity |-> q, rows |-> 0,
          error |-> NotNullError("parts", "quantity")]
    ELSE [quantity |-> [q EXCEPT ![part] = qty[1]], rows |-> 1,
          error |-> NoError]

\* handleEditPart: the update, which writes the quantity of the form over
\* the one in the table, and its toast
EditPart(actor, part, value) ==
    /\ nEdits < MaxEdits
    /\ nEdits' = nEdits + 1
    /\ LET res == UpdatePart(quantity, profiles, actor, part,
                             JsonNumber(value))
       IN  /\ quantity' = res.quantity
           /\ stocked' = IF res.rows = 1
                         THEN [stocked EXCEPT ![part] =
                                  @ + res.quantity[part] - quantity[part]]
                         ELSE stocked
           /\ page' = Notify(page, part, res.rows = 1)
           /\ ui' = Toast("edit-part", actor, part, NULL,
                          IF res.error = NoError
                          THEN "Part updated"
                          ELSE "Error updating part")
    /\ UNCHANGED <<partRows, serial, ledger, profiles, req, nUpdates,
                   lastUpdate, nManual, auth, categories, fn, scan, login>>

\* handleDeletePart: supabase.from("parts").delete().eq("id", part.id) and
\* its toast; a delete that matches no row is no error
DeletePart(actor, part) ==
    /\ IF CanManageParts(profiles, actor) /\ part \in DOMAIN quantity
       THEN /\ quantity' = [p \in DOMAIN quantity \ {part} |-> quantity[p]]
            /\ partRows' = [p \in DOMAIN partRows \ {part} |-> partRows[p]]
            /\ ledger' = OnDeletePart(ledger, part)
       ELSE UNCHANGED <<quantity, partRows, ledger>>
    /\ ui' = Toast("delete-part", actor, part, NULL, "Part deleted")
    /\ UNCHANGED <<serial, profiles, req, stocked, nUpdates, lastUpdate,
                   nManual, nEdits, auth, categories, fn, scan, page, login>>

\* supabase.from("categories").insert([{ name, description,
\* checkout_limit }]) as the store runs it: the policy, then the unique
\* index of name
InsertCategory(cats, profs, id, actor, name, limit) ==
    IF ~CanManageParts(profs, actor)
    THEN [categories |-> cats, error |-> RlsError("categories")]
    ELSE IF \E c \in DOMAIN cats : cats[c].name = name
    THEN [categories |-> cats, error |-> UniqueError("categories_name_key")]
    ELSE [categories |-> cats @@ (id :> [name |-> name,
                                         checkout_limit |-> limit]),
          error |-> NoError]

\* handleAddCategory: the insert, with parseInt(checkout_limit) || 10, and
\* its toast
AddCategory(actor, name, value) ==
    /\ serial.categories < Cardinality(Categories) + 1 + MaxNewCats
    /\ LET res == InsertCategory(categories, profiles, serial.categories,
                                 actor, name,
                                 ParseIntOr(value, DefaultCheckoutLimit))
       IN  /\ categories' = res.categories
           /\ ui' = Toast("add-category", actor, serial.categories, NULL,
                          IF res.error = NoError
                          THEN "Category added"
                          ELSE "Error adding category")
    /\ serial' = [serial EXCEPT !.categories = @ + 1]
    /\ UNCHANGED <<quantity, partRows, ledger, profiles, req, stocked,
                   nUpdates, lastUpdate, nManual, nEdits, auth, fn, scan,
                   page, login>>

\* supabase.from("categories").update({ name, description, checkout_limit })
\* .eq("id", category) as the store runs it
UpdateCategory(cats, profs, actor, category, name, limit) ==
    IF ~CanManageParts(profs, actor) \/ category \notin DOMAIN cats
    THEN [categories |-> cats, error |-> NoError]
    ELSE IF \E c \in DOMAIN cats \ {category} : cats[c].name = name
    THEN [categories |-> cats, error |-> UniqueError("categories_name_key")]
    ELSE [categories |-> [cats EXCEPT ![category] =
                             [name |-> name, checkout_limit |-> limit]],
          error |-> NoError]

\* handleEditCategory: the update, with parseInt(checkout_limit) || 10, and
\* its toast
EditCategory(actor, category, name, value) ==
    /\ nEdits < MaxEdits
    /\ nEdits' = nEdits + 1
    /\ LET res == UpdateCategory(categories, profiles, actor, category, name,
                                 ParseIntOr(value, DefaultCheckoutLimit))
       IN  /\ categories' = res.categories
           /\ ui' = Toast("edit-category", actor, category, NULL,
                          IF res.error = NoError
                          THEN "Category updated"
                          ELSE "Error updating category")
    /\ UNCHANGED <<quantity, partRows, serial, ledger, profiles, req,
                   stocked, nUpdates, lastUpdate, nManual, auth, fn, scan,
                   page, login>>

\* a line of the CSV file as CategoryImport sends it:
\* checkout_limit: fields[2] ? parseInt(fields[2]) : 10, where a NaN goes
\* out as null, a row without the field
CsvRow(name, field) ==
    IF field = ""
    THEN [name |-> name, checkout_limit |-> DefaultCheckoutLimit]
    ELSE IF IsNaN(field)
    THEN [name |-> name]
    ELSE [name |-> name, checkout_limit |-> ParseInt(field)]

\* Postgres cardinality_violation: two rows of one upsert have the same name
CardinalityError ==
    [code |-> "21000",
     message |-> <<"ON", "CONFLICT", "DO", "UPDATE", "command", "cannot",
                   "affect", "row", "a", "second", "time">>]

\* supabase.from("categories").upsert(rows, { onConflict: 'name' }) as the
\* store runs it: a row whose name exists overwrites that category, any
\* other row is inserted.  Row n is given the id id + n - 1: the sequence
\* is asked for every row that comes in, one that ends as an update
\* included.
UpsertCategories(cats, profs, id, actor, rows) ==
    IF ~CanManageParts(profs, actor)
    THEN [categories |-> cats, error |-> RlsError("categories")]
    ELSE IF \E m, n \in 1 .. Len(rows) : m # n /\ rows[m].name = rows[n].name
    THEN [categories |-> cats, error |-> CardinalityError]
    ELSE LET taken(n) == \E c \in DOMAIN cats : cats[c].name = rows[n].name
             new == {n \in 1 .. Len(rows) : ~taken(n)}
             over(c) == {n \in 1 .. Len(rows) : rows[n].name = cats[c].name}
         IN  [categories |->
                 [c \in DOMAIN cats \cup {id + n - 1 : n \in new} |->
                     IF c \in DOMAIN cats
                     THEN IF over(c) = {} THEN cats[c]
                          ELSE rows[CHOOSE n \in over(c) : TRUE]
                     ELSE rows[c - id + 1]],
              error |-> NoError]

\* handleFileSelect of CategoryImport: the rows with a name, the upsert,
\* and the toast
ImportCategories(actor, lines) ==
    LET rows == SelectSeq([n \in 1 .. Len(lines) |->
                              CsvRow(lines[n].name, lines[n].limit)],
                          LAMBDA row : row.name # "")
    IN  IF rows = <<>>
        THEN /\ ui' = Toast("import-categories", actor, 0, NULL,
                            "Import failed")
             /\ UNCHANGED <<quantity, partRows, serial, ledger, profiles,
                            req, stocked, nUpdates, lastUpdate, nManual,
                            nEdits, auth, categories, fn, scan, page, login>>
        ELSE /\ serial.categories + Len(rows)
                  <= Cardinality(Categories) + 1 + MaxNewCats
             /\ LET res == UpsertCategories(categories, profiles,
                                            serial.categories, actor, rows)
                IN  /\ categories' = res.categories
                    /\ ui' = Toast("import-categories", actor,
                                   serial.categories, NULL,
                                   IF res.error = NoError
                                   THEN "Import successful"
                                   ELSE "Import failed")
             /\ serial' = [serial EXCEPT !.categories =
                              IF CanManageParts(profiles, actor)
                              THEN @ + Len(rows) ELSE @ + 1]
             /\ UNCHANGED <<quantity, partRows, ledger, profiles, req,
                            stocked, nUpdates, lastUpdate, nManual, nEdits,
                            auth, fn, scan, page, login>>

\* the delete of a category with no foreign key in its way
DeleteFromCategoriesUnrestricted(cats, rows, profs, actor, category) ==
    IF CanManageParts(profs, actor)
    THEN [categories |-> [c \in DOMAIN cats \ {category} |-> cats[c]],
          error |-> NoError]
    ELSE [categories |-> cats, error |-> NoError]

\* supabase.from("categories").delete().eq("id", category.id) as the store
\* runs it: parts_category_id_fkey ... ON DELETE RESTRICT
DeleteFromCategories(cats, rows, profs, actor, category) ==
    IF ~CanManageParts(profs, actor) \/ category \notin DOMAIN cats
    THEN [categories |-> cats, error |-> NoError]
    ELSE IF \E p \in DOMAIN rows : rows[p].category_id = category
    THEN [categories |-> cats,
          error |-> FkErrorOn("parts", "parts_category_id_fkey")]
    ELSE [categories |-> [c \in DOMAIN cats \ {category} |-> cats[c]],
          error |-> NoError]

\* handleDeleteCategory: the delete and its toast
DeleteCategory(actor, category) ==
    /\ LET res == DeleteFromCategories(categories, partRows, profiles, actor,
                                       category)
       IN  /\ categories' = res.categories
           /\ ui' = Toast("delete-category", actor, category, NULL,
                          IF res.error = NoError
                          THEN "Category deleted"
                          ELSE "Error deleting category")
    /\ UNCHANGED <<quantity, partRows, serial, ledger, profiles, req,
                   stocked, nUpdates, lastUpdate, nManual, nEdits, auth, fn,
                   scan, page, login>>

\* the policies of table profiles: select, insert and update only; a
\* DELETE has no policy and reaches no row
CanDeleteProfiles(profs, actor) == FALSE

\* handleDeleteUser of the admin user page:
\* supabase.from("profiles").delete().eq("id", user.id) and its toast
DeleteProfile(actor, id) ==
    /\ IF CanDeleteProfiles(profiles, actor) /\ id \in DOMAIN profiles
       THEN /\ profiles' = [x \in DOMAIN profiles \ {id} |-> profiles[x]]
            /\ ledger' = OnDeleteProfile(ledger, {id})
       ELSE UNCHANGED <<profiles, ledger>>
    /\ ui' = Toast("delete-user", actor, 0, id, "User deleted")
    /\ UNCHANGED <<quantity, partRows, serial, req, stocked, nUpdates,
                   lastUpdate, nManual, nEdits, auth, categories, fn, scan,
                   page, login>>

\* .from("parts").select("*").eq("barcode", barcode.trim())
\* .eq("category_id", selectedCategoryId).maybeSingle()
PartByBarcode(q, barcode, categoryId) ==
    IF \E p \in DOMAIN q : Barcode(p) = Trim(barcode) /\ CategoryOf(p) = categoryId
    THEN CHOOSE p \in DOMAIN q :
            Barcode(p) = Trim(barcode) /\ CategoryOf(p) = categoryId
    ELSE NoPart

\* handleBarcodeInput, lines 170-184 and 197-203: the lookup of the scanned
\* part; existingPart.quantity is kept for the update
ScanRead(actor, barcode, categoryId) ==
    /\ scan.pc = "idle"
    /\ scan.done < MaxScans
    /\ Trim(barcode) # ""
    /\ LET part == PartByBarcode(quantity, barcode, categoryId)
       IN  IF part = NoPart
           THEN scan' = [scan EXCEPT !.actor = actor, !.part = NoPart,
                                     !.done = @ + 1]
           ELSE scan' = [scan EXCEPT !.pc = "write", !.actor = actor,
                                     !.part = part, !.read = quantity[part]]
    /\ UNCHANGED <<quantity, partRows, serial, ledger, profiles, req,
                   stocked, nUpdates, lastUpdate, nManual, nEdits, auth,
                   categories, fn, ui, page, login>>

\* handleBarcodeInput, lines 185-196:
\* .update({ quantity: existingPart.quantity + 1 }).eq("id", existingPart.id)
ScanWrite ==
    /\ scan.pc = "write"
    /\ IF CanManageParts(profiles, scan.actor) /\ scan.part \in DOMAIN quantity
       THEN /\ quantity' = [quantity EXCEPT ![scan.part] = scan.read + 1]
            /\ scan' = [scan EXCEPT !.pc = "idle", !.done = @ + 1,
                                    !.added = Append(@, scan.part)]
            /\ page' = Notify(page, scan.part, TRUE)
       ELSE /\ quantity' = quantity
            /\ scan' = [scan EXCEPT !.pc = "idle", !.done = @ + 1]
            /\ page' = page
    /\ UNCHANGED <<partRows, serial, ledger, profiles, req, stocked,
                   nUpdates, lastUpdate, nManual, nEdits, auth, categories,
                   fn, ui, login>>

(***************************************************************************)
(* The CategoryProducts page of a team user: loadCategoryAndParts, the     *)
(* cart, and handleReserveAll.                                             *)
(***************************************************************************)
Min(a, b) == IF a < b THEN a ELSE b

Max(a, b) == IF a > b THEN a ELSE b

\* setCart(prev => ...): the entry is deleted for 0 and written otherwise
SetCart(cart, partId, newQty) ==
    IF newQty = 0
    THEN [p \in DOMAIN cart \ {partId} |-> cart[p]]
    ELSE [p \in DOMAIN cart \cup {partId} |->
             IF p = partId THEN newQty ELSE cart[p]]

\* cart[partId] || 0
CartQty(cart, partId) == IF partId \in DOMAIN cart THEN cart[partId] ELSE 0

\* the keys of the cart, the integers, in ascending order
RECURSIVE CartKeys(_)
CartKeys(keys) ==
    IF keys = {} THEN <<>>
    ELSE LET least == CHOOSE p \in keys : \A x \in keys : p <= x
         IN  <<least>> \o CartKeys(keys \ {least})

\* getTotalItems
GetTotalItems(cart) ==
    SumSeq([n \in 1 .. Len(CartKeys(DOMAIN cart)) |->
               cart[CartKeys(DOMAIN cart)[n]]])

\* category?.checkout_limit || 10
LimitOr10(category) ==
    IF "checkout_limit" \in DOMAIN category /\ category.checkout_limit # 0
    THEN category.checkout_limit
    ELSE 10

\* Object.entries(cart).map(([partId, quantity]) =>
\*   ({ part_id: parseInt(partId), quantity })): integer keys come in
\* ascending order
CartItems(cart) ==
    LET keys == CartKeys(DOMAIN cart)
    IN  [i \in 1 .. Len(keys) |->
            [part_id |-> keys[i], quantity |-> cart[keys[i]]]]

\* .from("parts").select("*").eq("category_id", categoryId)
LoadParts(q, categoryId) ==
    [p \in {x \in DOMAIN q : CategoryOf(x) = categoryId} |-> q[p]]

\* the calls of loadCategoryAndParts in flight (each with the select it is
\* at, and whether handleReserveAll awaits it) without call n
WithoutLoad(loads, n) ==
    [i \in 1 .. (Len(loads) - 1) |-> IF i < n THEN loads[i] ELSE loads[i + 1]]

\* the page is mounted for a category: useEffect calls loadCategoryAndParts
\* and subscribes to the updates of parts
OpenPage(categoryId) ==
    /\ page.pc = "closed"
    /\ page' = [page EXCEPT !.pc = "open", !.categoryId = categoryId,
                            !.loads = <<[step |-> "category", awaited |-> FALSE]>>]
    /\ UNCHANGED <<quantity, partRows, serial, ledger, profiles, req,
                   stocked, nUpdates, lastUpdate, nManual, nEdits, auth,
                   categories, fn, ui, scan, login>>

\* the handler of the realtime channel: one event, one call of
\* loadCategoryAndParts
Reload ==
    /\ page.pc # "closed"
    /\ page.events > 0
    /\ Cardinality({n \in 1 .. Len(page.loads) : ~page.loads[n].awaited})
         < MaxLoads
    /\ page' = [page EXCEPT !.events = @ - 1,
                            !.loads = Append(@, [step |-> "category",
                                               awaited |-> FALSE])]
    /\ UNCHANGED <<quantity, partRows, serial, ledger, profiles, req,
                   stocked, nUpdates, lastUpdate, nManual, nEdits, auth,
                   categories, fn, ui, scan, login>>

\* the end of a call of loadCategoryAndParts: finally setIsLoading(false),
\* and for the call that handleReserveAll awaits, line 215,
\* setIsReserving(false)
LoadEnds(pg, n) ==
    [pg EXCEPT !.loads = WithoutLoad(@, n),
               !.isLoading = FALSE,
               !.pc = IF pg.loads[n].awaited THEN "open" ELSE @]

\* loadCategoryAndParts, lines 84-92 and 104-111: the select of the
\* category; without its row .single() gives an error, the parts stay as
\* they were and the toast is shown
LoadCategory(n) ==
    /\ n \in 1 .. Len(page.loads)
    /\ page.loads[n].step = "category"
    /\ IF page.categoryId \in DOMAIN categories
       THEN page' = [page EXCEPT !.category = categories[page.categoryId],
                                 !.loads[n].step = "parts"]
       ELSE page' = [LoadEnds(page, n) EXCEPT
                        !.toast = "Error loading products"]
    /\ UNCHANGED <<quantity, partRows, serial, ledger, profiles, req,
                   stocked, nUpdates, lastUpdate, nManual, nEdits, auth,
                   categories, fn, ui, scan, login>>

\* loadCategoryAndParts, lines 94-102 and 110-111: the select of the parts
LoadPartsStep(n) ==
    /\ n \in 1 .. Len(page.loads)
    /\ page.loads[n].step = "parts"
    /\ page' = [LoadEnds(page, n) EXCEPT
                   !.parts = LoadParts(quantity, page.categoryId)]
    /\ UNCHANGED <<quantity, partRows, serial, ledger, profiles, req,
                   stocked, nUpdates, lastUpdate, nManual, nEdits, auth,
                   categories, fn, ui, scan, login>>

\* updateCartQuantity; the buttons are there once isLoading is false
UpdateCartQuantity(partId, change) ==
    /\ page.pc # "closed"
    /\ ~page.isLoading
    /\ partId \in DOMAIN page.parts
    /\ LET currentQty == CartQty(page.cart, partId)
           newQty == Max(0, Min(currentQty + change, page.parts[partId]))
       IN  page' = [page EXCEPT !.cart = SetCart(@, partId, newQty)]
    /\ UNCHANGED <<quantity, partRows, serial, ledger, profiles, req,
                   stocked, nUpdates, lastUpdate, nManual, nEdits, auth,
                   categories, fn, ui, scan, login>>

\* setCartQuantity, with parseInt(value) || 0 of what is typed into the
\* quantity field
SetCartQuantity(partId, value) ==
    /\ page.pc # "closed"
    /\ ~page.isLoading
    /\ partId \in DOMAIN page.parts
    /\ LET qty == ParseIntOr(value, 0)
           newQty == Max(0, Min(qty, page.parts[partId]))
       IN  page' = [page EXCEPT !.cart = SetCart(@, partId, newQty)]
    /\ UNCHANGED <<quantity, partRows, serial, ledger, profiles, req,
                   stocked, nUpdates, lastUpdate, nManual, nEdits, auth,
                   categories, fn, ui, scan, login>>

\* handleReserveAll, lines 160-196: the two checks, and the request sent
\* with the cart of the click
HandleReserveAll ==
    /\ page.pc = "open"
    /\ ~page.isLoading
    /\ Len(page.sent) < MaxSends
    /\ IF DOMAIN page.cart = {}
       THEN page' = [page EXCEPT !.toast = "Cart is empty"]
       ELSE IF GetTotalItems(page.cart) > LimitOr10(page.category)
       THEN page' = [page EXCEPT !.toast = "Checkout limit exceeded"]
       ELSE page' = [page EXCEPT !.pc = "reserving",
                                 !.sent = Append(@, CartItems(page.cart))]
    /\ UNCHANGED <<quantity, partRows, serial, ledger, profiles, req,
                   stocked, nUpdates, lastUpdate, nManual, nEdits, auth,
                   categories, fn, ui, scan, login>>

\* the request of the page reaches the checkout-item function
Deliver(jwt) ==
    /\ page.pc = "reserving"
    /\ Receive(1, "POST", jwt, [items |-> page.sent[Len(page.sent)]])

\* handleReserveAll, lines 198-213: the response; on success the toast,
\* setCart({}) and the call of loadCategoryAndParts, which is awaited with
\* isReserving still true; on an error the toast
ReserveDone ==
    /\ page.pc = "reserving"
    /\ req[1].pc = "done"
    /\ IF req[1].resp.status = 200
       THEN page' = [page EXCEPT !.pc = "reloading", !.cart = <<>>,
                        !.loads = Append(@, [step |-> "category",
                                            awaited |-> TRUE]),
                        !.toast = "Checkout successful!"]
       ELSE page' = [page EXCEPT !.pc = "open", !.toast = "Checkout failed"]
    /\ req' = [req EXCEPT ![1] = IdleReq]
    /\ UNCHANGED <<quantity, partRows, serial, ledger, profiles, stocked,
                   nUpdates, lastUpdate, nManual, nEdits, auth, categories,
                   fn, ui, scan, login>>

(***************************************************************************)
(* Initial states and specifications.                                      *)
(***************************************************************************)
\* the seeded database, without its users: part p is in category p and
\* carries barcode "bp"; category 1 keeps the column default of
\* checkout_limit, category 2 was given a smaller limit by an admin; the
\* sequences of parts.id and categories.id stand after the seeded rows; no
\* invocation, no admin write, no scan and no login is under way, and the
\* CategoryProducts page is not open (no category loaded, isLoading true)
InitStore ==
    /\ partRows =
         [p \in Parts |-> [category_id |-> p, barcode |-> "b" \o ToString(p)]]
    /\ serial = [parts |-> Cardinality(Parts) + 1,
                 categories |-> Cardinality(Categories) + 1]
    /\ stocked = quantity
    /\ ledger = <<>>
    /\ req = [r \in Reqs |-> IdleReq]
    /\ nUpdates = 0
    /\ lastUpdate = [actor |-> NULL, id |-> 0, status |-> NULL,
                     remarks |-> NULL, prev |-> NULL, toast |-> NULL]
    /\ nManual = 0
    /\ nEdits = 0
    /\ categories =
         [c \in Categories |->
             [name |-> "c" \o ToString(c),
              checkout_limit |-> IF c = 1 THEN DefaultCheckoutLimit ELSE 2]]
    /\ fn = [f \in Calls |-> IdleCall]
    /\ ui = Toast(NULL, NULL, 0, NULL, NULL)
    /\ scan = [pc |-> "idle", actor |-> NULL, part |-> NoPart, read |-> 0,
               done |-> 0, added |-> <<>>]
    /\ page = [pc |-> "closed", categoryId |-> 0, category |-> <<>>,
               parts |-> <<>>, cart |-> <<>>, isLoading |-> TRUE,
               events |-> 0, loads |-> <<>>, sent |-> <<>>, toast |-> NULL]
    /\ login = [pc |-> "idle", user |-> NULL, n |-> 0, toast |-> NULL]

\* the seeded users: two team users and an admin with their profiles, and
\* "u0", a user whose profile was never created
InitWith(stocks) ==
    /\ quantity \in [Parts -> stocks]
    /\ profiles =
         [id \in {"p1", "p2", "pa"} |->
             IF id = "p1"
             THEN [user_id |-> "u1", username |-> "team1", role |-> "team"]
             ELSE IF id = "p2"
             THEN [user_id |-> "u2", username |-> "team2", role |-> "team"]
             ELSE [user_id |-> "ua", username |-> "admin", role |-> "admin"]]
    /\ auth = [u \in AuthUsers |->
                 [email |-> TeamEmail(u), password |-> "secret1"]]
    /\ InitStore

\* Spec: concurrent checkouts of well-formed single-item batches.
Init == InitWith(0 .. MaxStock)

ConcBodies ==
    {[items |-> <<[part_id |-> p, quantity |-> q]>>] :
        p \in Parts, q \in 1 .. MaxUnits}

Next ==
    \E r \in Reqs :
        \/ /\ Idle(r)
           /\ \E jwt \in {"u1", "u2"}, body \in ConcBodies :
                 Receive(r, "POST", jwt, body)
        \/ ResolveProfile(r)
        \/ BeginItem(r)
        \/ Rpc(r)

Spec == Init /\ [][Next]_vars

\* SpecBatch: one checkout at a time, over every shape of request, and its
\* resubmission once it has been answered.
\* line items: a part id that is missing (0), seeded (1, 2) or unknown (3),
\* with a quantity or without
ItemInputs ==
    {[part_id |-> p, quantity |-> q] : p \in 0 .. 3, q \in {-1, 0, 1, 2, 5}}
    \cup {[part_id |-> p] : p \in 0 .. 3}

\* bodies: an items array, the single part_id of the first version of the
\* page, and a text that is no JSON
BodyInputs ==
    {[items |-> s] : s \in SeqsUpTo(ItemInputs, MaxItems)}
    \cup {[part_id |-> p] : p \in 0 .. 3}
    \cup {[raw |-> "{"]}

\* The caller of request r0, once answered, submits the same request again,
\* as request r.
Resubmit(r, r0) ==
    /\ req[r0].pc = "done"
    /\ Receive(r, req[r0].method, req[r0].jwt, req[r0].body)

NextBatch ==
    \/ /\ Idle(1)
       /\ \E method \in {"POST", "OPTIONS", "GET"},
             jwt \in {"", "bad", "u0", "u1", "ua"}, body \in BodyInputs :
               Receive(1, method, jwt, body)
    \/ Resubmit(2, 1)
    \/ \E r \in {1, 2} : ResolveProfile(r) \/ BeginItem(r) \/ Rpc(r)

SpecBatch == InitWith({0, 1, 3}) /\ [][NextBatch]_vars

\* SpecLifecycle: checkouts interleaved with status updates and manual
\* entries of the admin pages.  "checked_out" is the status of the first
\* schema, which the status check no longer admits; part 3 and profile
\* "px" do not exist.
\* Every part starts with one unit, so that a two-unit checkout runs dry.
NextLifecycle ==
    \/ /\ Idle(1)
       /\ \E body \in ConcBodies : Receive(1, "POST", "u1", body)
    \/ ResolveProfile(1)
    \/ BeginItem(1)
    \/ Rpc(1)
    \/ \E actor \in {"u1", "ua"}, id \in 1 .. (Len(ledger) + 1),
          s \in Statuses \cup {"checked_out"}, remarks \in {"ok"} :
            UpdateReservation(actor, id, s, remarks)
    \/ \E actor \in {"u1", "ua"}, p \in Parts \cup {3},
          t \in {"p2", "px"}, s \in {"issued", "returned", "checked_out"} :
            ManualEntry(actor, p, t, s, "by hand")

SpecLifecycle == InitWith({1}) /\ [][NextLifecycle]_vars

\* SpecUsers: the three user-management functions and the edit of a
\* profile, in any order and interleaved at their store calls, on a
\* database that starts without users.  The functions are called with the
\* tokens of the users that exist, with no token and with a forged one.
InitUsers ==
    /\ quantity = [p \in Parts |-> 1]
    /\ profiles = <<>>
    /\ auth = <<>>
    /\ InitStore

CreateBodies ==
    {[username |-> " bob ", password |-> "secret1", role |-> r] :
        r \in {"admin", "team"}}
    \cup {[username |-> n, password |-> "secret1"] :
             n \in {"ab", "admin", " bob "}}
    \cup {[username |-> " bob ", password |-> pw] :
             pw \in {"12345", "secret1"}}
    \cup {[raw |-> "{"]}

DeleteBodies ==
    {[userId |-> u] : u \in DOMAIN auth \cup {"ghost", "  "}}
    \cup {<<>>, [raw |-> "{"]}

\* invocation f is the next to come in: the invocations are numbered in
\* the order of their arrival
Arrives(f) ==
    /\ fn[f].pc = "idle"
    /\ \A g \in Calls : g < f => fn[g].pc # "idle"

NextUsers ==
    \/ \E f \in Calls :
        \/ Arrives(f) /\ BootstrapCheck(f)
        \/ /\ Arrives(f)
           /\ \E jwt \in DOMAIN auth \cup {"", "bad"}, body \in CreateBodies :
                 CreateUserBegin(f, "POST", jwt, body)
        \/ /\ Arrives(f)
           /\ \E jwt \in DOMAIN auth \cup {"", "bad"}, body \in DeleteBodies :
                 DeleteUserBegin(f, "POST", jwt, body)
        \/ /\ Arrives(f)
           /\ \E method \in {"OPTIONS", "GET"} :
                 \/ CreateUserBegin(f, method, "", <<>>)
                 \/ DeleteUserBegin(f, method, "", <<>>)
        \/ BootstrapCreate(f)
        \/ BootstrapProfile(f)
        \/ CreateUserCaller(f)
        \/ CreateUserCreate(f)
        \/ CreateUserProfile(f)
        \/ DeleteUserCaller(f)
        \/ DeleteUserTarget(f)
        \/ DeleteUserDelete(f)
    \/ /\ nEdits < MaxEdits
       /\ \E actor \in DOMAIN auth, id \in DOMAIN profiles,
             role \in {"admin", "team"} :
               EditUser(actor, id, profiles[id].username, role)

SpecUsers == InitUsers /\ [][NextUsers]_vars

\* SpecLogin: the login form racing the user-management functions, called
\* with the tokens of the users that exist, and the edit of a profile.
\* Typed into the form are the default credentials of the admin, the
\* address of a team user, and a wrong password.
NextLogin ==
    \/ \E f \in Calls :
        \/ Arrives(f) /\ BootstrapCheck(f)
        \/ /\ Arrives(f)
           /\ \E jwt \in DOMAIN auth, role \in {"admin", "team"} :
                 CreateUserBegin(f, "POST", jwt,
                                 [username |-> " bob ", password |-> "secret1",
                                  role |-> role])
        \/ /\ Arrives(f)
           /\ \E jwt \in DOMAIN auth, u \in DOMAIN auth :
                 DeleteUserBegin(f, "POST", jwt, [userId |-> u])
        \/ BootstrapCreate(f)
        \/ BootstrapProfile(f)
        \/ CreateUserCaller(f)
        \/ CreateUserCreate(f)
        \/ CreateUserProfile(f)
        \/ DeleteUserCaller(f)
        \/ DeleteUserTarget(f)
        \/ DeleteUserDelete(f)
    \/ /\ nEdits < MaxEdits
       /\ \E id \in DOMAIN profiles, role \in {"admin", "team"} :
             EditUser(profiles[id].user_id, id, profiles[id].username, role)
    \/ /\ login.pc = "idle"
       /\ \E typed \in {<<"admin", "admin", "admin123">>,
                         <<"team", "bob@team.local", "secret1">>,
                         <<"admin", "admin", "admin">>} :
             LoginSubmit(typed[1], typed[2], typed[3])
    \/ LoginSignIn
    \/ LoginUpsert
    \/ LoginProfile

SpecLogin == InitUsers /\ [][NextLogin]_vars

\* SpecAudit: a checkout and status updates interleaved with the deletion
\* of parts and users by the admin pages and by admin-delete-user.
NextAudit ==
    \/ /\ Idle(1)
       /\ \E body \in ConcBodies : Receive(1, "POST", "u1", body)
    \/ ResolveProfile(1)
    \/ BeginItem(1)
    \/ Rpc(1)
    \/ \E id \in 1 .. Len(ledger), s \in {"issued", "returned"} :
          UpdateReservation("ua", id, s, "ok")
    \/ \E actor \in {"u1", "ua"}, p \in Parts : DeletePart(actor, p)
    \/ \E id \in {"p1", "p2"} : DeleteProfile("ua", id)
    \/ /\ fn[1].pc = "idle"
       /\ \E jwt \in {"u1", "ua"}, u \in {"u1", "ua"} :
             DeleteUserBegin(1, "POST", jwt, [userId |-> u])
    \/ DeleteUserCaller(1)
    \/ DeleteUserTarget(1)
    \/ DeleteUserDelete(1)

SpecAudit == InitWith({1}) /\ [][NextAudit]_vars

\* SpecCatalog: the parts and categories pages of the admin, run by the
\* admin and by a team user.
\* lines of a CSV file: a name that exists, a new one and none, with a
\* limit, without one, and with one that is no number
CsvLines ==
    {[name |-> "c1", limit |-> "5"], [name |-> "c1", limit |-> "abc"],
     [name |-> "c3", limit |-> ""], [name |-> "c3", limit |-> "0"],
     [name |-> "", limit |-> "5"]}

NextCatalog ==
    \E actor \in {"u1", "ua"} :
        \/ \E c \in Categories \cup {3}, value \in {"0", "2", ".0"} :
              AddPart(actor, c, value)
        \/ /\ nEdits < MaxEdits
           /\ \E p \in Parts \cup {3}, value \in {"0", "2", ".0"} :
                 EditPart(actor, p, value)
        \/ \E p \in Parts \cup {3} : DeletePart(actor, p)
        \/ \E name \in {"c1", "c3"}, value \in {"", "abc", "0", "5"} :
              AddCategory(actor, name, value)
        \/ /\ nEdits < MaxEdits
           /\ \E c \in Categories \cup {3}, name \in {"c1", "c3"},
                 value \in {"", "5"} :
                   EditCategory(actor, c, name, value)
        \/ \E lines \in SeqsUpTo(CsvLines, MaxLines) :
              ImportCategories(actor, lines)
        \/ \E c \in Categories \cup {3} : DeleteCategory(actor, c)
        \/ \E c \in {0, 1, 3}, value \in {"", "2"}, barcode \in {"b1", "  "} :
              ManualAdd(actor, c, value, barcode)

SpecCatalog == InitWith({1}) /\ [][NextCatalog]_vars

\* SpecRestock: one barcode scan of the admin racing two checkouts.
NextRestock ==
    \/ \E r \in {1, 2} :
          \/ /\ Idle(r)
             /\ \E jwt \in {"u1", "u2"}, body \in ConcBodies :
                   Receive(r, "POST", jwt, body)
          \/ ResolveProfile(r)
          \/ BeginItem(r)
          \/ Rpc(r)
    \/ \E barcode \in {"b1", "b2", "zz"}, c \in Categories :
          ScanRead("ua", barcode, c)
    \/ ScanWrite

SpecRestock == Init /\ [][NextRestock]_vars

\* SpecCart: team user u1 on the CategoryProducts page, while team user u2
\* checks out parts of the same stock and the admin deletes.
InitCart ==
    /\ InitWith({1, 3})
    /\ quantity[1] = 1
    /\ quantity[2] = 3

NextCart ==
    \/ \E c \in Categories : OpenPage(c)
    \/ Reload
    \/ \E n \in 1 .. Len(page.loads) : LoadCategory(n) \/ LoadPartsStep(n)
    \/ \E p \in Parts, change \in {-1, 1} : UpdateCartQuantity(p, change)
    \/ \E p \in Parts, value \in {"abc", "2", "5", "-3", "2.7"} :
          SetCartQuantity(p, value)
    \/ HandleReserveAll
    \/ Deliver("u1")
    \/ ReserveDone
    \/ /\ Idle(2)
       /\ \E p \in Parts :
             Receive(2, "POST", "u2",
                     [items |-> <<[part_id |-> p, quantity |-> 1]>>])
    \/ \E r \in {1, 2} : ResolveProfile(r) \/ BeginItem(r) \/ Rpc(r)
    \/ /\ page.pc # "closed"
       /\ \E p \in DOMAIN LoadParts(quantity, page.categoryId) :
             DeletePart("ua", p)
    \/ page.pc # "closed" /\ DeleteCategory("ua", page.categoryId)

SpecCart == InitCart /\ [][NextCart]_vars

(***************************************************************************)
(* Vocabulary of the properties.                                           *)
(***************************************************************************)
\* the failure kind a response of the function stands for
Kind(resp) ==
    CASE resp.status = 0 -> "None"
      [] resp.status = 200 /\ resp.success -> "Success"
      [] resp.status = 200 -> "Preflight"
      [] resp.status = 405 -> "MethodNotAllowed"
      [] resp.status = 401 -> "InvalidToken"
      [] resp.error = "Insufficient stock" -> "OutOfStock"
      [] resp.error = "Checkout failed" -> "StoreError"
      [] resp.error = "Invalid part_id or quantity" -> "InvalidQuantity"
      [] resp.error = "Profile not found" -> "ProfileNotFound"
      [] OTHER -> "Exception"

Done(r) == req[r].pc = "done"

\* rows of the ledger that reference part p
EntriesOf(p) == {n \in 1 .. Len(ledger) : ledger[n].part_id = p}

\* rows of the ledger that reference part p and are reserved or issued
OpenEntriesOf(p) ==
    {n \in EntriesOf(p) : ledger[n].status \in {"reserved", "issued"}}

\* no part quantity has changed and no ledger row exists
NoMutation == quantity = stocked /\ ledger = <<>>

\* the units a line item asks for, when it states a positive quantity
PositiveQuantity(item) == "quantity" \in DOMAIN item /\ item.quantity > 0

\* every line item names an existing part and a positive quantity
WellFormed(items) ==
    \A n \in 1 .. Len(items) :
        items[n].part_id \in Parts /\ PositiveQuantity(items[n])

\* units requested from category c by a well-formed batch
RequestedFrom(items, c) ==
    SumSeq([n \in 1 .. Len(items) |->
              IF CategoryOf(items[n].part_id) = c
              THEN items[n].quantity ELSE 0])

(***************************************************************************)
(* C1..C10: the checkout path.                                             *)
(***************************************************************************)
\* C1: in every reachable state, after any interleaving of concurrent
\* checkout requests, every part's quantity is >= 0.
C1_QuantityNonNegative == \A p \in Parts : quantity[p] >= 0

\* Two requests have both run steps against the same stocked part, more
\* steps than there was stock, and its quantity stands at 0.
C1_Witness ==
    \E p \in Parts :
        /\ stocked[p] > 0
        /\ quantity[p] = 0
        /\ Cardinality(EntriesOf(p)) > stocked[p]
        /\ \A r \in {1, 2} :
              req[r].calls > 0 /\ req[r].items[1].part_id = p

\* C2: every single-unit step either decrements the part's quantity by
\* exactly 1 and inserts exactly one reserved row referencing that part and
\* the acting profile, or changes neither the quantity nor the ledger.
C2_StepIsPairOrNothing ==
    [][\A r \in Reqs :
          Rpc(r) =>
            LET p == req[r].items[req[r].k].part_id
            IN  \/ /\ p \in Parts
                   /\ quantity' = [quantity EXCEPT ![p] = @ - 1]
                   /\ ledger' = Append(ledger,
                                   [part_id |-> p,
                                    team_user_id |-> req[r].prof,
                                    status |-> "reserved",
                                    scanned_at |-> Len(ledger) + 1,
                                    notes |-> NULL,
                                    admin_remarks |-> NULL])
                \/ /\ quantity' = quantity
                   /\ ledger' = ledger]_vars

\* C3: when NumReqs > N concurrent single-unit checkouts of a part stocked
\* with N have all been answered, exactly N succeeded, the others failed
\* with OutOfStock, and the quantity is 0.
C3_ExactlyStockSucceed ==
    \A p \in Parts :
        (/\ stocked[p] < NumReqs
         /\ \A r \in Reqs :
               Done(r) /\ req[r].items = <<[part_id |-> p, quantity |-> 1]>>)
        => /\ Cardinality({r \in Reqs : Kind(req[r].resp) = "Success"})
                = stocked[p]
           /\ Cardinality({r \in Reqs : Kind(req[r].resp) = "OutOfStock"})
                = NumReqs - stocked[p]
           /\ quantity[p] = 0

\* C4: for every part, the number of ledger rows referencing it in status
\* reserved or issued plus its quantity equals its stocked quantity, after
\* any sequence of checkouts and admin status updates.
C4_Conservation ==
    \A p \in Parts :
        Cardinality(OpenEntriesOf(p)) + quantity[p] = stocked[p]

\* C5: a single-unit step that finds the part's quantity at 0 fails with
\* OutOfStock, inserts no ledger row and ends the checkout.
C5_ZeroStockStepFails ==
    [][\A r \in Reqs :
          (/\ Rpc(r)
           /\ req[r].items[req[r].k].part_id \in Parts
           /\ quantity[req[r].items[req[r].k].part_id] = 0)
          => /\ Kind(req'[r].resp) = "OutOfStock"
             /\ req'[r].pc = "done"
             /\ ledger' = ledger]_vars

\* C6: with part 1 stocked at 3 in category 1 (checkout_limit 10), the
\* checkout of the single line item {part 1, quantity 5} fails with
\* OutOfStock after 3 completed units, and leaves quantity 0 and exactly 3
\* new rows, all reserved.
C6_FiveOfThree ==
    (/\ Done(1)
     /\ stocked[1] = 3
     /\ CheckoutLimit(CategoryOf(1)) = 10
     /\ req[1].items = <<[part_id |-> 1, quantity |-> 5]>>)
    => /\ Kind(req[1].resp) = "OutOfStock"
       /\ req[1].dec = 3
       /\ quantity[1] = 0
       /\ Len(ledger) = 3
       /\ \A n \in 1 .. Len(ledger) :
             ledger[n].status = "reserved" /\ ledger[n].part_id = 1

\* C7: a well-formed checkout whose quantities summed per category exceed
\* that category's checkout_limit fails with CheckoutLimitExceeded before
\* any mutation: once answered, no quantity has changed and no ledger row
\* has been created.
C7_LimitBeforeMutation ==
    \A r \in Reqs :
        (/\ Done(r)
         /\ WellFormed(req[r].items)
         /\ \E c \in Categories :
               RequestedFrom(req[r].items, c) > CheckoutLimit(c))
        => /\ Kind(req[r].resp) = "CheckoutLimitExceeded"
           /\ req[r].calls = 0
           /\ NoMutation

\* C8: validation precedes mutation: when a checkout with an invalid line
\* item (unknown part or a quantity that is not positive), even a later
\* one, is answered with a failure, no part quantity has changed and no
\* ledger row has been created.
C8_ValidationBeforeMutation ==
    \A r \in Reqs :
        (/\ Done(r)
         /\ req[r].items # <<>>
         /\ ~WellFormed(req[r].items)
         /\ Kind(req[r].resp) # "Success")
        => NoMutation

\* C9: a checkout whose first line item names an existing part with a
\* quantity that is zero, negative or missing is rejected with
\* InvalidQuantity and no unit of the item is checked out.
C9_NonPositiveQuantityRejected ==
    \A r \in Reqs :
        (/\ Done(r)
         /\ req[r].items # <<>>
         /\ req[r].items[1].part_id \in Parts
         /\ ~PositiveQuantity(req[r].items[1]))
        => /\ Kind(req[r].resp) = "InvalidQuantity"
           /\ req[r].calls = 0

\* C10: a checkout of positive quantities that names a part_id without a
\* row in parts fails with PartNotFound, a kind distinct from OutOfStock
\* and StoreError, creates no ledger row and changes no quantity.
C10_UnknownPartIsPartNotFound ==
    \A r \in Reqs :
        (/\ Done(r)
         /\ \A n \in 1 .. Len(req[r].items) :
               req[r].items[n].part_id # 0 /\ PositiveQuantity(req[r].items[n])
         /\ \E n \in 1 .. Len(req[r].items) :
               req[r].items[n].part_id \notin Parts)
        => /\ Kind(req[r].resp) = "PartNotFound"
           /\ Kind(req[r].resp) \notin {"OutOfStock", "StoreError"}
           /\ NoMutation

(***************************************************************************)
(* C11..C20: responses of the checkout, and the lifecycle of a row.        *)
(***************************************************************************)
\* the units a well-formed batch asks for
RequestedTotal(items) ==
    SumSeq([n \in 1 .. Len(items) |-> items[n].quantity])

\* units taken out of stock, over all parts
TotalDecrement == SumSeq([p \in 1 .. Cardinality(Parts) |->
                            stocked[p] - quantity[p]])

Terminal == {"returned", "lost", "damaged"}

\* the step is a status update
IsUpdate == nUpdates' # nUpdates

\* C11: an answered checkout (a POST) whose token is missing or invalid was
\* refused as unauthorized (401), and one whose user has no profile was
\* refused with ProfileNotFound; neither ran a step, changed a quantity or
\* created a ledger row.
C11_UnknownCallerRejected ==
    \A r \in Reqs :
        (Done(r) /\ req[r].method = "POST") =>
          /\ req[r].jwt \notin AuthUsers
             => /\ req[r].resp.status = 401
                /\ req[r].resp.error \in {"Missing Authorization", "Invalid token"}
                /\ req[r].calls = 0
                /\ NoMutation
          /\ (/\ req[r].jwt \in AuthUsers
              /\ ~\E id \in DOMAIN profiles : profiles[id].user_id = req[r].jwt)
             => /\ Kind(req[r].resp) = "ProfileNotFound"
                /\ req[r].calls = 0
                /\ NoMutation

\* A user without a profile asked for a checkout while stock was there, and
\* was answered ProfileNotFound.
C11_Witness ==
    /\ Done(1)
    /\ req[1].method = "POST"
    /\ req[1].jwt = "u0"
    /\ Kind(req[1].resp) = "ProfileNotFound"
    /\ \E p \in Parts : stocked[p] > 0

\* C12: when a checkout of positive quantities reports full success, the
\* count it returns is the sum of the requested quantities, and it took
\* exactly that many units out of stock and created exactly that many rows.
C12_SuccessCountsUnits ==
    \A r \in Reqs :
        (Done(r) /\ Kind(req[r].resp) = "Success" /\ WellFormed(req[r].items))
        => /\ req[r].resp.items_count = RequestedTotal(req[r].items)
           /\ req[r].dec = RequestedTotal(req[r].items)
           /\ req[r].ins = RequestedTotal(req[r].items)

\* C13: the ledger changes only by a checkout step appending one row, and
\* that row is in status reserved, references the part of the line item and
\* the profile of the caller.
C13_CheckoutRowsReserved ==
    [][ledger' # ledger =>
         \E r \in Reqs :
            /\ Rpc(r)
            /\ Len(ledger') = Len(ledger) + 1
            /\ SubSeq(ledger', 1, Len(ledger)) = ledger
            /\ ledger'[Len(ledger')].status = "reserved"
            /\ ledger'[Len(ledger')].part_id = req[r].items[req[r].k].part_id
            /\ ledger'[Len(ledger')].team_user_id = req[r].prof
            /\ profiles[req[r].prof].user_id = req[r].jwt]_vars

\* Both team users have rows of their own in the ledger.
C13_Witness ==
    /\ \E n \in 1 .. Len(ledger) : ledger[n].team_user_id = "p1"
    /\ \E n \in 1 .. Len(ledger) : ledger[n].team_user_id = "p2"

\* C14: when a checkout has failed part-way with OutOfStock or StoreError,
\* the units committed before the failure remain (their rows and their
\* decrements), and the response reports how many units succeeded.  (A
\* failure response of the function has no count: items_count 0.)
C14_PartialFailureReported ==
    (/\ Done(1)
     /\ Idle(2)
     /\ Kind(req[1].resp) \in {"OutOfStock", "StoreError"})
    => /\ Len(ledger) = req[1].ins
       /\ TotalDecrement = req[1].dec
       /\ req[1].resp.items_count = req[1].ins

\* C15: a batch submitted again after its answer (success or failure) is
\* processed afresh: the second run makes the same calls, gets the same
\* answer and inserts as many new rows as the first, and every row went
\* with a decrement for as long as the part had stock.
C15_NoDeduplication ==
    (Done(1) /\ Done(2))
    => /\ req[2].resp = req[1].resp
       /\ req[2].calls = req[1].calls
       /\ req[2].ins = req[1].ins
       /\ Len(ledger) = req[1].ins + req[2].ins
       /\ \A p \in Parts :
             quantity[p] = Max(0, stocked[p] - Cardinality(EntriesOf(p)))

\* A batch failed part-way after a committed unit, was submitted again, and
\* the second run took a unit out of stock as well.
C15_Witness ==
    /\ Done(1)
    /\ Done(2)
    /\ Kind(req[1].resp) = "StoreError"
    /\ req[1].dec >= 1
    /\ req[2].dec >= 1

\* C16: a status update by a caller who is not an admin fails (Forbidden,
\* shown as an error) and leaves the ledger unchanged.
C16_NonAdminForbidden ==
    [][(IsUpdate /\ GetUserRole(profiles, lastUpdate'.actor) # "admin")
       => /\ lastUpdate'.toast = "Error"
          /\ ledger' = ledger]_vars

\* C17: a status update never changes the quantity of any part, whatever
\* the row and the target status.
C17_UpdateKeepsQuantity ==
    [][IsUpdate => quantity' = quantity]_vars

\* An admin has set a row of a part to returned, and the unit is still out
\* of the part's stock.
C17_Witness ==
    /\ lastUpdate.actor = "ua"
    /\ lastUpdate.toast = "Success"
    /\ lastUpdate.status = "returned"
    /\ lastUpdate.id \in 1 .. Len(ledger)
    /\ ledger[lastUpdate.id].status = "returned"
    /\ lastUpdate.prev = "reserved"
    /\ quantity[ledger[lastUpdate.id].part_id]
         < stocked[ledger[lastUpdate.id].part_id]

\* C18: a status update changes no row but its target, and of the target,
\* when the caller is an admin, exactly status and admin_remarks: notes,
\* scanned_at, part_id and team_user_id stay as they were.
C18_UpdateFrame ==
    [][IsUpdate =>
         /\ Len(ledger') = Len(ledger)
         /\ \A n \in 1 .. Len(ledger) :
               IF /\ n = lastUpdate'.id
                  /\ GetUserRole(profiles, lastUpdate'.actor) = "admin"
                  /\ lastUpdate'.toast = "Success"
               THEN /\ ledger'[n].status = lastUpdate'.status
                    /\ ledger'[n].admin_remarks = lastUpdate'.remarks
                    /\ ledger'[n].notes = ledger[n].notes
                    /\ ledger'[n].scanned_at = ledger[n].scanned_at
                    /\ ledger'[n].part_id = ledger[n].part_id
                    /\ ledger'[n].team_user_id = ledger[n].team_user_id
               ELSE ledger'[n] = ledger[n]]_vars

\* An admin has updated a row that carries notes, next to another row.
C18_Witness ==
    /\ lastUpdate.toast = "Success"
    /\ lastUpdate.actor = "ua"
    /\ lastUpdate.id \in 1 .. Len(ledger)
    /\ Len(ledger) >= 2
    /\ ledger[lastUpdate.id].notes = "by hand"
    /\ ledger[lastUpdate.id].admin_remarks = "ok"
    /\ ledger[lastUpdate.id].status # lastUpdate.prev

\* C19 as stated: a row in status returned, lost or damaged never changes
\* its status again.
C19_TerminalIsFinal ==
    [][\A n \in 1 .. Len(ledger) :
          ledger[n].status \in Terminal
          => ledger'[n].status = ledger[n].status]_vars

\* C19 amended: the status of a row in returned, lost or damaged is changed
\* by nothing but a status update of an admin on that row, which sets the
\* status it was given, one of the five.
C19_TerminalOnlyByAdmin ==
    [][\A n \in 1 .. Len(ledger) :
          (ledger[n].status \in Terminal
           /\ ledger'[n].status # ledger[n].status)
          => /\ IsUpdate
             /\ GetUserRole(profiles, lastUpdate'.actor) = "admin"
             /\ lastUpdate'.id = n
             /\ ledger'[n].status = lastUpdate'.status
             /\ ledger'[n].status \in Statuses]_vars

\* An admin has moved a returned, lost or damaged row back to reserved.
C19_Witness ==
    /\ lastUpdate.prev \in Terminal
    /\ lastUpdate.toast = "Success"
    /\ lastUpdate.id \in 1 .. Len(ledger)
    /\ lastUpdate.status = "reserved"
    /\ ledger[lastUpdate.id].status = "reserved"

\* C20: the status of every row is one of the five, and a status update by
\* an admin on a reserved or issued row to any of the five takes effect,
\* whatever the order of the two statuses.
C20_AdminMovesFreely ==
    /\ [](\A n \in 1 .. Len(ledger) : ledger[n].status \in Statuses)
    /\ [][(/\ IsUpdate
           /\ GetUserRole(profiles, lastUpdate'.actor) = "admin"
           /\ lastUpdate'.id \in 1 .. Len(ledger)
           /\ ledger[lastUpdate'.id].status \in {"reserved", "issued"}
           /\ lastUpdate'.status \in Statuses)
          => /\ ledger'[lastUpdate'.id].status = lastUpdate'.status
             /\ lastUpdate'.toast = "Success"]_vars

\* An admin has moved a row from reserved straight to returned.
C20_Witness ==
    /\ lastUpdate.prev = "reserved"
    /\ lastUpdate.status = "returned"
    /\ lastUpdate.id \in 1 .. Len(ledger)
    /\ ledger[lastUpdate.id].status = "returned"

(***************************************************************************)
(* C21..C30.                                                               *)
(***************************************************************************)
\* ids of the profiles with role admin
AdminProfiles == {id \in DOMAIN profiles : profiles[id].role = "admin"}

\* the user has a row in profiles
HasProfile(u) == \E id \in DOMAIN profiles : profiles[id].user_id = u

\* invocation f returns in this step
Returns(f) == fn[f].pc # "done" /\ fn'[f].pc = "done"

\* C25: admin-delete-user answers Forbidden to a caller who is no admin,
\* 'Cannot delete admin users' for a target with an admin profile and
\* 'User not found' for a target without profile; in every call that does
\* not answer success no user and no profile is deleted; the function
\* deletes a user only by the last step of a call, and then the profile of
\* the target is not an admin's; no step of the function shrinks the set
\* of admin profiles.
C25_DeleteUserGuards ==
    [][(\E f \in Calls : fn'[f] # fn[f] /\ fn'[f].op = "admin-delete-user") =>
       /\ \A f \in Calls :
            (Returns(f) /\ fn'[f].op = "admin-delete-user") =>
              /\ (/\ fn[f].pc = "caller"
                  /\ \A id \in AdminProfiles :
                        profiles[id].user_id # fn[f].jwt)
                 => fn'[f].resp = Reply(403, "Forbidden")
              /\ (/\ fn[f].pc = "target"
                  /\ \E id \in AdminProfiles :
                        profiles[id].user_id = fn[f].userId)
                 => fn'[f].resp = Reply(403, "Cannot delete admin users")
              /\ (fn[f].pc = "target" /\ ~HasProfile(fn[f].userId))
                 => fn'[f].resp = Reply(404, "User not found")
              /\ fn'[f].resp.status # 200
                 => auth' = auth /\ profiles' = profiles
       /\ (auth' # auth \/ profiles' # profiles)
          => \E f \in Calls :
                /\ Returns(f)
                /\ fn[f].pc = "delete"
                /\ DOMAIN auth \ DOMAIN auth' = {fn[f].userId}
                /\ \A id \in DOMAIN profiles \ DOMAIN profiles' :
                      /\ profiles[id].user_id = fn[f].userId
                      /\ profiles[id].role # "admin"
       /\ AdminProfiles \subseteq {id \in DOMAIN profiles' :
                                      profiles'[id].role = "admin"}]_vars

\* C26: at most one auth user with the default admin address and at most
\* one profile named 'admin' exist, and at most one call of
\* bootstrap-admin has created a user that is in auth.users, whatever the
\* interleaving of the calls; and a call that finds an admin profile
\* answers created:false and creates nothing.
C26_BootstrapOnce ==
    /\ [](/\ Cardinality({u \in DOMAIN auth : auth[u].email = AdminEmail}) <= 1
          /\ Cardinality({id \in DOMAIN profiles :
                             profiles[id].username = "admin"}) <= 1
          /\ Cardinality({f \in Calls : /\ fn[f].op = "bootstrap-admin"
                                        /\ fn[f].created \in DOMAIN auth}) <= 1)
    /\ [][\A f \in Calls :
            (/\ fn[f].pc = "idle"
             /\ fn'[f].op = "bootstrap-admin"
             /\ AdminProfiles # {})
            => /\ fn'[f].resp = Reply(200, "created:false")
               /\ fn'[f].pc = "done"
               /\ auth' = auth
               /\ profiles' = profiles]_vars

\* Two calls of bootstrap-admin raced: both found no admin profile, one
\* created the admin, the other failed.
C26_Witness ==
    \E f, g \in Calls :
        /\ f # g
        /\ fn[f].op = "bootstrap-admin"
        /\ fn[g].op = "bootstrap-admin"
        /\ fn[f].resp = Reply(200, "created:true")
        /\ fn[g].resp.status = 500
        /\ Cardinality(AdminProfiles) = 1

\* C29: once a call of admin-create-user has returned, the auth user it
\* created, if any, has a profile.
C29_UserWithProfile ==
    \A f \in Calls :
        (/\ fn[f].op = "admin-create-user"
         /\ fn[f].pc = "done"
         /\ fn[f].created # NULL
         /\ fn[f].created \in DOMAIN auth)
        => HasProfile(fn[f].created)

\* C21: a status update with an id that no row has fails (EntryNotFound,
\* shown as an error) and changes no row.
C21_UnknownEntryFails ==
    [][(IsUpdate /\ lastUpdate'.id \notin 1 .. Len(ledger))
       => /\ lastUpdate'.toast = "Error"
          /\ ledger' = ledger]_vars

\* the calls a checkout has made when every unit so far was tried once
UnitsTried(r) ==
    SumSeq([n \in 1 .. (req[r].k - 1) |-> NumberOr1(req[r].items[n])])
    + req[r].i

\* C23: a checkout calls the procedure once for every unit it has reached
\* and never again; a call that fails is its last: the request is answered
\* at once with the store error (500), and an answered request makes no
\* further call.
C23_NoRetry ==
    /\ [](\A r \in Reqs :
            /\ req[r].calls - req[r].ins \in {0, 1}
            /\ req[r].calls = UnitsTried(r) + (req[r].calls - req[r].ins)
            /\ req[r].calls # req[r].ins
               => /\ Done(r)
                  /\ req[r].resp = Response(500, "Checkout failed", 0))
    /\ [][\A r \in Reqs : Done(r) => req'[r] = req[r]]_vars

\* A checkout failed on the one call of its first item, and its second item,
\* a part in stock, was never tried.
C23_Witness ==
    /\ Done(1)
    /\ Idle(2)
    /\ Kind(req[1].resp) = "StoreError"
    /\ req[1].calls = 1
    /\ req[1].k = 1
    /\ Len(req[1].items) = 2
    /\ req[1].items[2].part_id \in Parts
    /\ quantity[req[1].items[2].part_id] > 0
    /\ ledger = <<>>

\* the parts of the units of the first k - 1 items and of i units of item k,
\* in the order of the array
RECURSIVE UnitsOf(_, _, _)
UnitsOf(items, k, i) ==
    IF k = 0 THEN <<>>
    ELSE UnitsOf(items, k - 1,
                 IF k = 1 THEN 0 ELSE NumberOr1(items[k - 1]))
         \o [n \in 1 .. i |-> items[k].part_id]

\* C24: the rows of a checkout appear in the order of its items, all units
\* of an item before the first of the next: the ledger is the units of the
\* first request followed by those of its resubmission, each in item order.
C24_ItemOrder ==
    [n \in 1 .. Len(ledger) |-> ledger[n].part_id]
    = UnitsOf(req[1].items, req[1].k, req[1].i)
      \o UnitsOf(req[2].items, req[2].k, req[2].i)

\* A checkout of two units of part 2 and then one of part 1 has succeeded.
C24_Witness ==
    /\ Done(1)
    /\ Kind(req[1].resp) = "Success"
    /\ Len(ledger) = 3
    /\ ledger[1].part_id = 2
    /\ ledger[2].part_id = 2
    /\ ledger[3].part_id = 1

\* the step deletes a part or a profile
IsDeletion ==
    \/ DOMAIN quantity' # DOMAIN quantity
    \/ DOMAIN profiles' # DOMAIN profiles

\* C22: no step removes a row of the ledger, and the rows keep their place,
\* notes and timestamp; a step that deletes a part or a profile changes the
\* rows only by setting the reference to what it deleted to absent (status
\* included); no reference changes otherwise, and none is left dangling.
C22_LedgerPermanent ==
    [][/\ Len(ledger') >= Len(ledger)
       /\ \A n \in 1 .. Len(ledger) :
             /\ ledger'[n].scanned_at = ledger[n].scanned_at
             /\ ledger'[n].notes = ledger[n].notes
             /\ ledger'[n] =
                  [ledger[n] EXCEPT
                     !.part_id = IF @ \in DOMAIN quantity' THEN @ ELSE NoPart,
                     !.team_user_id =
                         IF @ \in DOMAIN profiles' THEN @ ELSE NULL,
                     !.status = ledger'[n].status,
                     !.admin_remarks = ledger'[n].admin_remarks]
             /\ IsDeletion => ledger'[n].status = ledger[n].status
                              /\ ledger'[n].admin_remarks
                                   = ledger[n].admin_remarks]_vars

\* A row set to returned by the admin has lost its part and its user to
\* deletions, and is still there with its status and timestamp.
C22_Witness ==
    \E n \in 1 .. Len(ledger) :
        /\ ledger[n].part_id = NoPart
        /\ ledger[n].team_user_id = NULL
        /\ ledger[n].status = "returned"
        /\ ledger[n].admin_remarks = "ok"
        /\ ledger[n].scanned_at = n

\* C27: a category disappears only by a delete of an admin on a category
\* that no part references, and that delete takes nothing else; a delete on
\* a category that has parts changes no category, part or ledger row, and
\* is answered to the admin with an error.
C27_CategoryRestrict ==
    [][/\ DOMAIN categories' # DOMAIN categories \cup DOMAIN categories'
          => /\ ui'.op = "delete-category"
             /\ DOMAIN categories' = DOMAIN categories \ {ui'.target}
             /\ \A c \in DOMAIN categories' : categories'[c] = categories[c]
             /\ GetUserRole(profiles, ui'.actor) = "admin"
             /\ \A p \in DOMAIN partRows : CategoryOf(p) # ui'.target
       /\ (/\ ui' # ui
           /\ ui'.op = "delete-category"
           /\ \E p \in DOMAIN partRows : CategoryOf(p) = ui'.target)
          => /\ categories' = categories
             /\ partRows' = partRows
             /\ quantity' = quantity
             /\ ledger' = ledger
             /\ GetUserRole(profiles, ui'.actor) = "admin"
                => ui'.toast = "Error deleting category"]_vars

\* The admin was refused the delete of a category that has a part, after
\* the other category, emptied of its part, was deleted.
C27_Witness ==
    /\ ui.op = "delete-category"
    /\ ui.actor = "ua"
    /\ ui.toast = "Error deleting category"
    /\ ui.target \in DOMAIN categories
    /\ Cardinality(DOMAIN categories) = 1
    /\ \E p \in DOMAIN partRows : CategoryOf(p) = ui.target

\* units request r has taken out of the stock of part p (a request of
\* SpecRestock has one line item)
DecrementsOn(r, p) ==
    IF req[r].items # <<>> /\ req[r].items[1].part_id = p
    THEN req[r].dec
    ELSE 0

\* units the barcode scans have added to part p
Restocked(p) == Cardinality({n \in 1 .. Len(scan.added) : scan.added[n] = p})

\* C28: whatever the interleaving, the quantity of a part is what it was
\* stocked with, plus the units restocked by scans, minus the units the
\* checkouts have taken: no decrement is lost.
C28_RestockKeepsDecrements ==
    \A p \in Parts :
        quantity[p] = stocked[p] + Restocked(p)
                      - SumSeq([r \in 1 .. 2 |-> DecrementsOn(r, p)])

\* C30: on the open page every cart entry is for a loaded part and has a
\* quantity between 1 and the loaded quantity of the part, and every
\* request the page has sent has at least one item and a total of at most
\* the checkout limit of the category.
C30_CartWithinStock ==
    page.pc # "closed" =>
      /\ \A p \in DOMAIN page.cart :
            /\ p \in DOMAIN page.parts
            /\ page.cart[p] >= 1
            /\ page.cart[p] <= page.parts[p]
      /\ \A n \in 1 .. Len(page.sent) :
            /\ page.sent[n] # <<>>
            /\ page.categoryId \in DOMAIN categories
               => RequestedTotal(page.sent[n])
                    <= CheckoutLimit(page.categoryId)

====
